---------------------------- MODULE Spec2Model ----------------------------
(***************************************************************************)
(* A model of the Advanced SQL Agent of Certainti-be                       *)
(* (v1/src/agents/advancedSqlAgent.js), of the routes that drive it        *)
(* (v1/src/routes/sql-agent.routes.js), of executeQuery of the Project     *)
(* Summary Agent (v1/src/agents/projectSummaryAgent.js) and of the Python  *)
(* agent bridge (v1/src/controllers/python-agent-bridge.controller.js).    *)
(*                                                                         *)
(* Text is modelled as a sequence of characters, each character a string   *)
(* of length one (two characters whose upper-case form is not the          *)
(* character itself shifted are written "<dotless-i>" and "<sharp-s>").    *)
(***************************************************************************)
EXTENDS Integers, Sequences, FiniteSets, TLC

-----------------------------------------------------------------------------
(* Bounds of the model.                                                    *)

\* the longest guard input, in fragments of GuardFragments
MaxFrags == 3

-----------------------------------------------------------------------------
(* Text: String.prototype.toUpperCase, includes, trim.                     *)

LowerLetters == <<"a","b","c","d","e","f","g","h","i","j","k","l","m","n","o","p","q","r","s","t","u","v","w","x","y","z">>
UpperLetters == <<"A","B","C","D","E","F","G","H","I","J","K","L","M","N","O","P","Q","R","S","T","U","V","W","X","Y","Z">>

\* toUpperCase of one character: a letter maps to its capital, U+0131
\* (dotless i) to "I", U+00DF (sharp s) to the two characters "SS", and any
\* other character of the model to itself.
UpperCaseOfLetter ==
    [c \in {LowerLetters[i] : i \in 1..Len(LowerLetters)} |->
        UpperLetters[CHOOSE i \in 1..Len(LowerLetters) : LowerLetters[i] = c]]

toUpperCaseChar(c) ==
    IF c \in DOMAIN UpperCaseOfLetter THEN <<UpperCaseOfLetter[c]>>
    ELSE IF c = "<dotless-i>" THEN <<"I">>
    ELSE IF c = "<sharp-s>" THEN <<"S", "S">>
    ELSE <<c>>

\* String.prototype.toUpperCase (the text is split in halves, so that the
\* evaluation nests only a few levels deep)
RECURSIVE toUpperCase(_)
toUpperCase(s) ==
    IF s = <<>> THEN <<>>
    ELSE IF Len(s) = 1 THEN toUpperCaseChar(s[1])
    ELSE LET half == Len(s) \div 2
         IN  toUpperCase(SubSeq(s, 1, half)) \o toUpperCase(SubSeq(s, half + 1, Len(s)))

\* String.prototype.includes
includes(s, pat) ==
    \E i \in 0..(Len(s) - Len(pat)) :
        \A j \in 1..Len(pat) : s[i + j] = pat[j]

Whitespace == {" ", "\n", "\t"}

\* the number of whitespace characters of s from position i on
whitespaceRun(s, i) ==
    CHOOSE n \in 0..(Len(s) - i + 1) :
        /\ \A k \in 0..(n - 1) : s[i + k] \in Whitespace
        /\ (i + n <= Len(s) => s[i + n] \notin Whitespace)

trimStart(s) == SubSeq(s, whitespaceRun(s, 1) + 1, Len(s))

trimEnd(s) ==
    LET n == CHOOSE m \in 0..Len(s) :
                 /\ \A k \in 0..(m - 1) : s[Len(s) - k] \in Whitespace
                 /\ (m < Len(s) => s[Len(s) - m] \notin Whitespace)
    IN  SubSeq(s, 1, Len(s) - n)

trim(s) == trimEnd(trimStart(s))

-----------------------------------------------------------------------------
(* The Query Guard: AdvancedSqlAgent.validateAndOptimizeQuery.             *)

dangerousKeywords ==
    << <<"D","R","O","P">>,
       <<"D","E","L","E","T","E">>,
       <<"T","R","U","N","C","A","T","E">>,
       <<"A","L","T","E","R">>,
       <<"C","R","E","A","T","E">>,
       <<"I","N","S","E","R","T">>,
       <<"U","P","D","A","T","E">> >>

kwLIMIT   == <<"L","I","M","I","T">>
kwSELECT  == <<"S","E","L","E","C","T">>
kwCOUNT   == <<"C","O","U","N","T","(">>
kwSUM     == <<"S","U","M","(">>
kwAVG     == <<"A","V","G","(">>
kwGROUPBY == <<"G","R","O","U","P"," ","B","Y">>
DefaultLimit == <<" ","L","I","M","I","T"," ","1","0","0">>

\* the prohibited keywords found in the upper-cased text, by their index
prohibitedIn(queryUpper) ==
    {k \in 1..Len(dangerousKeywords) : includes(queryUpper, dangerousKeywords[k])}

\* the aggregate test without its GROUP BY case
isAggregate_withoutGroupBy(queryUpper) ==
    \/ includes(queryUpper, kwCOUNT)
    \/ includes(queryUpper, kwSUM)
    \/ includes(queryUpper, kwAVG)

\* lines 596-597: the statement is recognisably an aggregate
isAggregate(queryUpper) ==
    \/ includes(queryUpper, kwCOUNT)
    \/ includes(queryUpper, kwSUM)
    \/ includes(queryUpper, kwAVG)
    \/ includes(queryUpper, kwGROUPBY)

\* the row cap appended whether or not the text has a LIMIT
needsLimit_ignoringLimit(queryUpper) ==
    /\ includes(queryUpper, kwSELECT)
    /\ ~isAggregate(queryUpper)

\* lines 594-599: whether the default row cap is appended
needsLimit(queryUpper) ==
    /\ ~includes(queryUpper, kwLIMIT)
    /\ includes(queryUpper, kwSELECT)
    /\ ~isAggregate(queryUpper)

\* the guard without the upper-casing of line 584
validateAndOptimizeQuery_caseSensitive(query) ==
    LET bad == prohibitedIn(query)
    IN  IF bad # {}
        THEN [ok |-> FALSE, query |-> <<>>,
              keyword |-> dangerousKeywords[CHOOSE k \in bad : \A m \in bad : k <= m]]
        ELSE [ok |-> TRUE,
              query |-> IF needsLimit(toUpperCase(query)) THEN query \o DefaultLimit ELSE query,
              keyword |-> <<>>]

\* The result of the guard: ok = FALSE is the thrown Error, whose message
\* names the first prohibited keyword of the list that the text contains.
validateAndOptimizeQuery(query) ==
    LET queryUpper == toUpperCase(query)
        bad == prohibitedIn(queryUpper)
    IN  IF bad # {}
        THEN [ok |-> FALSE, query |-> <<>>,
              keyword |-> dangerousKeywords[CHOOSE k \in bad : \A m \in bad : k <= m]]
        ELSE [ok |-> TRUE,
              query |-> IF needsLimit(queryUpper) THEN query \o DefaultLimit ELSE query,
              keyword |-> <<>>]


-----------------------------------------------------------------------------
(* Inputs of the guard: every concatenation of at most MaxFrags fragments,  *)
(* and every plain SELECT <column> FROM <table> LIMIT n over the columns    *)
(* the repository's own queries name.                                       *)

GuardFragments ==
    { <<"S","E","L","E","C","T"," ">>,
      <<"s","e","l","e","c","t"," ">>,
      <<"*"," ","F","R","O","M"," ","c","o","m","p","a","n","y">>,
      <<"C","O","U","N","T","(","*",")"," ","F","R","O","M"," ","c","o","m","p","a","n","y">>,
      <<" ","G","R","O","U","P"," ","B","Y"," ","s","t","r","a","<sharp-s>","e">>,
      <<" ","s","u","m","(","c","o","s","t",")">>,
      <<" ","A","V","G","(","c","o","s","t",")">>,
      <<" ","L","I","M","I","T"," ","5">>,
      <<" ","l","<dotless-i>","m","i","t"," ","5">>,
      <<"D","R","O","P"," ","T","A","B","L","E"," ","c","o","m","p","a","n","y">>,
      <<"d","e","l","e","t","e"," ">>,
      <<"T","r","u","n","c","a","t","e"," ">>,
      <<"A","L","T","E","R"," ">>,
      <<"i","n","s","e","r","t"," ">>,
      <<"l","a","s","t","U","p","d","a","t","e","d">>,
      <<"c","r","e","a","t","e","d","T","i","m","e">> }

RECURSIVE FragmentStrings(_)
FragmentStrings(n) ==
    IF n = 0 THEN {<<>>}
    ELSE LET shorter == FragmentStrings(n - 1)
         IN  shorter \cup {s \o f : s \in shorter, f \in GuardFragments}

\* the columns of the projects table, as fetchProjectSummary selects them
ProjectColumns ==
    { <<"p","r","o","j","e","c","t","I","d">>,
      <<"p","r","o","j","e","c","t","C","o","d","e">>,
      <<"p","r","o","j","e","c","t","N","a","m","e">>,
      <<"c","o","m","p","a","n","y","I","d">>,
      <<"p","r","o","j","e","c","t","T","y","p","e">>,
      <<"p","r","o","j","e","c","t","S","t","a","t","u","s">>,
      <<"s","t","a","r","t","D","a","t","e">>,
      <<"e","n","d","D","a","t","e">>,
      <<"t","o","t","a","l","B","u","d","g","e","t">>,
      <<"p","r","o","j","e","c","t","M","a","n","a","g","e","r">>,
      <<"c","r","e","a","t","e","d","T","i","m","e">>,
      <<"m","o","d","i","f","i","e","d","T","i","m","e">> }

\* the tables the prompt of generateSqlQuery gives as examples
ExampleTables ==
    { <<"c","o","m","p","a","n","y">>,
      <<"p","r","o","j","e","c","t","s">>,
      <<"c","o","n","t","a","c","t","s">> }

LimitValues == { <<"1">>, <<"5","0">> }

PlainSelect(column, table, n) ==
    <<"S","E","L","E","C","T"," ">> \o column \o <<" ","F","R","O","M"," ">> \o table \o <<" ","L","I","M","I","T"," ">> \o n

PlainSelects ==
    {PlainSelect(c, t, n) : c \in ProjectColumns, t \in ExampleTables, n \in LimitValues}

GuardInputs == FragmentStrings(MaxFrags) \cup PlainSelects

\* the guard has not been called yet
NotValidated == [ok |-> FALSE, query |-> <<>>, keyword |-> <<>>]

VARIABLES guardInput, guardResult

guardVars == <<guardInput, guardResult>>

GuardInit ==
    /\ guardInput \in GuardInputs
    /\ guardResult = NotValidated

GuardIdle ==
    /\ guardInput = <<>>
    /\ guardResult = NotValidated

\* one call validateAndOptimizeQuery(guardInput)
Validate ==
    /\ guardResult = NotValidated
    /\ guardResult' = validateAndOptimizeQuery(guardInput)
    /\ UNCHANGED guardInput

-----------------------------------------------------------------------------
(* The Query Synthesizer: the post-processing of generateSqlQuery.          *)

\* pat occurs in s at position i
occursAt(s, pat, i) ==
    /\ i >= 1
    /\ i + Len(pat) - 1 <= Len(s)
    /\ \A j \in 1..Len(pat) : s[i + j - 1] = pat[j]

Fence == <<"<backtick>","<backtick>","<backtick>">>
FenceSql == <<"<backtick>","<backtick>","<backtick>","s","q","l">>

\* The length of the match of /<fence>sql\s*|\s*<fence>/ at position i of s
\* (<fence> is three backticks), 0 when there is none: the first alternative
\* is tried first, and \s* takes every whitespace character it can.
sqlFenceMatch(s, i) ==
    IF occursAt(s, FenceSql, i)
    THEN Len(FenceSql) + whitespaceRun(s, i + Len(FenceSql))
    ELSE IF occursAt(s, Fence, i + whitespaceRun(s, i))
    THEN whitespaceRun(s, i) + Len(Fence)
    ELSE 0

\* query.replace(/<fence>sql\s*|\s*<fence>/g, ''): the leftmost match is
\* removed, and the search goes on after it
RECURSIVE stripSqlFences(_)
stripSqlFences(s) ==
    LET matches == {i \in 1..Len(s) : sqlFenceMatch(s, i) > 0}
    IN  IF matches = {} THEN s
        ELSE LET i == CHOOSE m \in matches : \A n \in matches : m <= n
             IN  SubSeq(s, 1, i - 1)
                 \o stripSqlFences(SubSeq(s, i + sqlFenceMatch(s, i), Len(s)))

\* query.replace(/^sql\s*/i, '')
stripSqlPrefix(s) ==
    IF Len(s) >= 3 /\ toUpperCase(SubSeq(s, 1, 3)) = <<"S","Q","L">>
    THEN SubSeq(s, 4 + whitespaceRun(s, 4), Len(s))
    ELSE s

\* query.replace(/<fence>/g, '')
RECURSIVE stripFences(_)
stripFences(s) ==
    LET matches == {i \in 1..Len(s) : occursAt(s, Fence, i)}
    IN  IF matches = {} THEN s
        ELSE LET i == CHOOSE m \in matches : \A n \in matches : m <= n
             IN  SubSeq(s, 1, i - 1) \o stripFences(SubSeq(s, i + Len(Fence), Len(s)))

Digits == {"0", "1", "2", "3", "4", "5", "6", "7", "8", "9"}

\* a word character of a regular expression: [A-Za-z0-9_]
isWordChar(c) ==
    \/ c \in DOMAIN UpperCaseOfLetter
    \/ \E i \in 1..Len(UpperLetters) : c = UpperLetters[i]
    \/ c \in Digits
    \/ c = "_"

\* the regular expression \b<word>\b with flag i matches at position i of s
wordMatchAt(s, word, i) ==
    /\ i + Len(word) - 1 <= Len(s)
    /\ toUpperCase(SubSeq(s, i, i + Len(word) - 1)) = toUpperCase(word)
    /\ (i > 1 => ~isWordChar(s[i - 1]))
    /\ (i + Len(word) <= Len(s) => ~isWordChar(s[i + Len(word)]))

\* query.replace(new RegExp("\\b" + incorrect + "\\b", 'gi'), correct): two
\* matches never overlap, so every match in s is replaced
RECURSIVE replaceWord(_, _, _)
replaceWord(s, incorrect, correct) ==
    LET matches == {i \in 1..Len(s) : wordMatchAt(s, incorrect, i)}
    IN  IF matches = {} THEN s
        ELSE LET i == CHOOSE m \in matches : \A n \in matches : m >= n
             IN  replaceWord(SubSeq(s, 1, i - 1), incorrect, correct)
                 \o correct \o SubSeq(s, i + Len(incorrect), Len(s))

\* lines 523-528, in the order Object.entries gives
correctMappings ==
    << <<<<"c","o","m","p","a","n","i","e","s">>, <<"c","o","m","p","a","n","y">>>>,
       <<<<"u","s","e","r","s">>, <<"c","o","n","t","a","c","t","s">>>>,
       <<<<"e","m","p","l","o","y","e","e","s">>, <<"c","o","n","t","a","c","t","s">>>>,
       <<<<"t","i","m","e","s","h","e","e","t","s","_","d","a","t","a">>, <<"t","i","m","e","s","h","e","e","t","d","a","t","a">>>> >>

RECURSIVE applyMappings(_, _)
applyMappings(s, k) ==
    IF k > Len(correctMappings) THEN s
    ELSE applyMappings(replaceWord(s, correctMappings[k][1], correctMappings[k][2]),
                       k + 1)

\* lines 514-533: the statement made of the model's reply
cleanGeneratedQuery(text) ==
    LET q0 == trim(text)
        q1 == trim(stripSqlFences(q0))
        q2 == trim(stripSqlPrefix(q1))
        q3 == trim(stripFences(q2))
    IN  applyMappings(q3, 1)

\* The outcome of the call this.model.generateContent(prompt): a reply, or a
\* failure carrying an HTTP status.
LlmReply(text) == [ok |-> TRUE, text |-> text, status |-> 0]
LlmFailure(status) == [ok |-> FALSE, text |-> <<>>, status |-> status]

ReferenceErrorMessage == "relevantTables is not defined"
GenerationFailedMessage == "Failed to generate SQL query"

\* generateSqlQuery, from the outcome of the model call on. In the catch
\* block the argument relevantTables of the call at line 542 names no
\* binding in scope (the parameter is tableNames), so evaluating it throws a
\* ReferenceError before generateFallbackQuery is entered.
generateSqlQuery(llm) ==
    IF llm.ok
    THEN [ok |-> TRUE, query |-> cleanGeneratedQuery(llm.text), error |-> ""]
    ELSE IF llm.status = 429
         THEN [ok |-> FALSE, query |-> <<>>, error |-> ReferenceErrorMessage]
         ELSE [ok |-> FALSE, query |-> <<>>, error |-> GenerationFailedMessage]

-----------------------------------------------------------------------------
(* The Execution & Cache Layer: data.                                       *)

\* this.cacheTimeout, in milliseconds
cacheTimeout == 300000

\* the capacity of this.queryCache: the literal 100 of line 643, scaled down
MaxCacheEntries == 2

\* this.maxHistorySize: 1000 in the constructor, scaled down
maxHistorySize == 2

\* const maxRetries of executeQuery
maxRetries == 3

\* a result of this many rows or more is not cached
CacheableRowLimit == 1000

\* the characters of the query a history record keeps
HistoryQueryLength == 200

\* the characters of the base64 text that make the cache key
CacheKeyLength == 50

\* the number of request slots (requests in progress at once)
NumSlots == 2

\* the number of requests Spec starts
MaxRequests == 2

\* the number of calls of executeQuery SpecRetry starts
MaxRetryRequests == 1

\* the requests of SpecFailure
MaxFailureRequests == 2

\* the requests of SpecStore
MaxStoreRequests == 2

\* the number of requests SpecCache starts
MaxCacheRequests == 3

\* the clock advances in steps of TickMs milliseconds, MaxTicks times
TickMs == cacheTimeout \div 2
MaxTicks == 2

Slots == 1..NumSlots

Some(v) == <<v>>
None == <<>>

Min(a, b) == IF a <= b THEN a ELSE b

\* the upper four bits of the byte of an ASCII character
highNibble(c) ==
    IF c \in {"\n", "\t"} THEN 0
    ELSE IF c \in Digits \cup {":", ";", "<", "=", ">", "?"} THEN 3
    ELSE IF c = "@" \/ \E i \in 1..15 : c = UpperLetters[i] THEN 4
    ELSE IF c \in {"[", "]", "^", "_"} \/ \E i \in 16..26 : c = UpperLetters[i] THEN 5
    ELSE IF c = "<backtick>" \/ \E i \in 1..15 : c = LowerLetters[i] THEN 6
    ELSE IF c \in {"{", "|", "}", "~"} \/ \E i \in 16..26 : c = LowerLetters[i] THEN 7
    ELSE 2

\* Buffer.from(query).toString('base64').substring(0, 50), for ASCII text:
\* 50 base64 characters carry 300 bits, the first 37 bytes of the query and
\* the upper four bits of byte 38 (zero bits when the query has 37 bytes).
\* The key is modelled by what it is a function of.
generateCacheKey(query) ==
    LET whole == (CacheKeyLength * 6) \div 8
    IN  [bytes  |-> SubSeq(query, 1, Min(whole, Len(query))),
         nibble |-> IF Len(query) > whole THEN highNibble(query[whole + 1]) ELSE 0]

\* this.queryCache is a Map: a sequence of entries, in the order in which
\* their keys were inserted (the iteration order of a Map).
cacheHas(cache, key) == \E i \in 1..Len(cache) : cache[i].key = key

cacheGet(cache, key) == cache[CHOOSE i \in 1..Len(cache) : cache[i].key = key]

RECURSIVE cacheDelete(_, _)
cacheDelete(cache, key) ==
    IF cache = <<>> THEN <<>>
    ELSE IF Head(cache).key = key THEN Tail(cache)
    ELSE <<Head(cache)>> \o cacheDelete(Tail(cache), key)

\* Map.prototype.set: an existing key keeps its place in the order
cacheSet(cache, key, rows, time) ==
    IF cacheHas(cache, key)
    THEN [i \in 1..Len(cache) |->
            IF cache[i].key = key
            THEN [cache[i] EXCEPT !.result = rows, !.timestamp = time]
            ELSE cache[i]]
    ELSE Append(cache, [key |-> key, result |-> rows, timestamp |-> time])

\* the freshness test with <= for <
isFresh_inclusive(entry, time) == time - entry.timestamp <= cacheTimeout

\* line 617: Date.now() - cachedData.timestamp < this.cacheTimeout
isFresh(entry, time) == time - entry.timestamp < cacheTimeout

\* the eviction deleting the last key of the Map for the first
evictOldest_newest(cache) ==
    IF Len(cache) > MaxCacheEntries THEN SubSeq(cache, 1, Len(cache) - 1) ELSE cache

\* lines 643-646: delete this.queryCache.keys().next().value when too large
evictOldest(cache) ==
    IF Len(cache) > MaxCacheEntries THEN Tail(cache) ELSE cache

\* a result is cached whatever useCache says
isCacheable_ignoringUseCache(useCache, rows) ==
    rows.length > 0 /\ rows.length < CacheableRowLimit

\* line 636: the result is cached
isCacheable(useCache, rows) ==
    useCache /\ rows.length > 0 /\ rows.length < CacheableRowLimit

\* lines 636-647
storeResult(cache, useCache, key, rows, time) ==
    IF isCacheable(useCache, rows)
    THEN evictOldest(cacheSet(cache, key, rows, time))
    ELSE cache

\* addToQueryHistory with pop() for shift()
addToQueryHistory_dropNewest(history, query, success, executionTime, rowCount, error, time) ==
    LET historyEntry == [timestamp     |-> time,
                         query         |-> SubSeq(query, 1, Min(HistoryQueryLength, Len(query))),
                         success       |-> success,
                         executionTime |-> executionTime,
                         rowCount      |-> rowCount,
                         error         |-> error]
        pushed == Append(history, historyEntry)
    IN  IF Len(pushed) > maxHistorySize THEN SubSeq(pushed, 1, Len(pushed) - 1) ELSE pushed

\* addToQueryHistory (lines 846-862); time is the clock when it is called
addToQueryHistory(history, query, success, executionTime, rowCount, error, time) ==
    LET historyEntry == [timestamp     |-> time,
                         query         |-> SubSeq(query, 1, Min(HistoryQueryLength, Len(query))),
                         success       |-> success,
                         executionTime |-> executionTime,
                         rowCount      |-> rowCount,
                         error         |-> error]
        pushed == Append(history, historyEntry)
    IN  IF Len(pushed) > maxHistorySize THEN Tail(pushed) ELSE pushed

\* lines 82-83: the error codes executeQuery retries on
isConnectionError(code) ==
    code \in {"ECONNRESET", "PROTOCOL_CONNECTION_LOST", "ETIMEDOUT", "EPIPE"}

\* every connection error is retried, whatever the count
shouldRetry_always(code, retryCount) == isConnectionError(code)

\* line 83: a failed attempt is retried
shouldRetry(code, retryCount) ==
    isConnectionError(code) /\ retryCount < maxRetries - 1

\* line 74: the condition of the while loop
loopContinues(retryCount) == retryCount < maxRetries

\* the delay computed from the retry count before its increment
backoffDelay_beforeIncrement(retryCount) == (2 ^ (retryCount - 1)) * 1000

\* line 89: Math.pow(2, retryCount) * 1000, retryCount already incremented
backoffDelay(retryCount) == (2 ^ retryCount) * 1000

\* the pool is recreated on the first retry
recreatesPool_firstRetry(retryCount) == retryCount = 1

\* line 92: the pool is recreated after the backoff
recreatesPool(retryCount) == retryCount = 2

\* error.message: the text the driver gives the error of a code
driverMessage(code) == "driver: " \o code

\* the message of a failure result is always the raw one
errorMessage_raw(code) == driverMessage(code)

\* lines 672-679: the message of a failure result
errorMessage(code) ==
    IF code = "ER_NO_SUCH_TABLE" THEN "unknown-table"
    ELSE IF code \in {"ECONNRESET", "ETIMEDOUT"} THEN "connection-timeout"
    ELSE IF code = "ER_BAD_FIELD_ERROR" THEN "unknown-column"
    ELSE driverMessage(code)

\* what connectionPool.execute gives: rows, or an error with a code
DbRows(rows) == [ok |-> TRUE, rows |-> rows, code |-> ""]
DbError(code) == [ok |-> FALSE, rows |-> [length |-> 0, data |-> "-"], code |-> code]

\* the objects executeSqlQuery returns (lines 619-624, 656-662, 681-686);
\* a field the object does not have is None
CachedResult(rows, executionTime) ==
    [success |-> TRUE, data |-> Some(rows), executionTime |-> executionTime,
     fromCache |-> Some(TRUE), rowCount |-> None, error |-> None, errorCode |-> None]

ExecutedResult(rows, executionTime) ==
    [success |-> TRUE, data |-> Some(rows), executionTime |-> executionTime,
     fromCache |-> Some(FALSE), rowCount |-> Some(rows.length), error |-> None,
     errorCode |-> None]

FailureResult(code, executionTime) ==
    [success |-> FALSE, data |-> None, executionTime |-> executionTime,
     fromCache |-> None, rowCount |-> None, error |-> Some(errorMessage(code)),
     errorCode |-> Some(code)]

-----------------------------------------------------------------------------
(* The Response Composer and the responses of the routes.                   *)

\* generateResponse, by the kind of text it returns; llmOk is the outcome of
\* its call of the model
generateResponse(queryResult, llmOk) ==
    IF ~queryResult.success THEN "error-apology"
    ELSE IF queryResult.data = None \/ queryResult.data[1].length = 0 THEN "no-data"
    ELSE IF llmOk THEN "answer"
    ELSE "records-found-apology"

\* lines 771-781: what processQuestion returns once executeSqlQuery returned
processQuestionResult(optimizedQuery, queryResult, llmOk) ==
    [success   |-> TRUE,
     query     |-> Some(optimizedQuery),
     rowCount  |-> IF queryResult.rowCount = None \/ queryResult.rowCount = Some(0)
                   THEN Some(0) ELSE queryResult.rowCount,
     fromCache |-> IF queryResult.fromCache = Some(TRUE) THEN Some(TRUE) ELSE Some(FALSE),
     response  |-> generateResponse(queryResult, llmOk),
     error     |-> ""]

\* lines 783-791: what processQuestion returns when a step threw
processQuestionFailure(message) ==
    [success   |-> FALSE,
     query     |-> None,
     rowCount  |-> None,
     fromCache |-> None,
     response  |-> "sorry",
     error     |-> message]

\* lines 100-126: the response of POST /query
queryResponse(pq) ==
    [status    |-> IF pq.success THEN 200 ELSE 400,
     success   |-> pq.success,
     message   |-> IF pq.success THEN "Query processed successfully"
                   ELSE "Query processing failed",
     fromCache |-> pq.fromCache,
     rowCount  |-> pq.rowCount,
     results   |-> None,
     response  |-> pq.response,
     error     |-> pq.error]

\* lines 178-198: the response of POST /direct-sql once executeSqlQuery returned
directSqlResponse(queryResult) ==
    IF queryResult.success
    THEN [status |-> 200, success |-> TRUE, message |-> "Query executed successfully",
          fromCache |-> queryResult.fromCache, rowCount |-> queryResult.rowCount,
          results |-> queryResult.data, response |-> "", error |-> ""]
    ELSE [status |-> 400, success |-> FALSE, message |-> "Query execution failed",
          fromCache |-> None, rowCount |-> None, results |-> None, response |-> "",
          error |-> queryResult.error[1]]

\* a response that carries a message only
plainResponse(status, message, error) ==
    [status |-> status, success |-> FALSE, message |-> message,
     fromCache |-> None, rowCount |-> None, results |-> None, response |-> "",
     error |-> error]

\* lines 806-826 and 36-50: the response of GET /health
healthResponse(healthy) ==
    IF healthy
    THEN [status |-> 200, success |-> TRUE, message |-> "Advanced SQL Agent is healthy",
          fromCache |-> None, rowCount |-> None, results |-> None, response |-> "",
          error |-> ""]
    ELSE plainResponse(503, "Advanced SQL Agent is unhealthy", "unhealthy")

ProhibitedKeywordMessage == "Query contains prohibited keyword"

\* the response of the route of request, once executeSqlQuery returned
responseFor(request, optimizedQuery, queryResult, llmOk) ==
    IF request.route = "direct-sql"
    THEN directSqlResponse(queryResult)
    ELSE queryResponse(processQuestionResult(optimizedQuery, queryResult, llmOk))

\* whether generateResponse calls the model for this result
composerCallsModel(request, queryResult) ==
    /\ request.route = "query"
    /\ queryResult.success
    /\ queryResult.data # None
    /\ queryResult.data[1].length > 0

ComposerOutcomes(request, queryResult) ==
    IF composerCallsModel(request, queryResult) THEN BOOLEAN ELSE {FALSE}

-----------------------------------------------------------------------------
(* The state.                                                               *)

VARIABLES
    pc,             \* per slot: where the request is suspended
    req,            \* per slot: the request
    gen,            \* per slot: the outcome of generateSqlQuery
    guarded,        \* per slot: the outcome of validateAndOptimizeQuery
    call,           \* per slot: the locals of executeSqlQuery and executeQuery
    result,         \* per slot: what executeSqlQuery returned
    resp,           \* per slot: the HTTP response sent
    queryCache,     \* this.queryCache
    queryHistory,   \* this.queryHistory
    metrics,        \* this.metrics
    connectionPool, \* this.connectionPool, by the number of pools created
    now,            \* Date.now()
    started         \* the number of requests started

agentVars == <<pc, req, gen, guarded, call, result, resp, queryCache, queryHistory,
               metrics, connectionPool, now, started>>

NoRequest == [route |-> "none", question |-> "", statement |-> <<>>, useCache |-> FALSE]
NoGen == [called |-> FALSE, status |-> 0, ok |-> FALSE, query |-> <<>>, error |-> ""]
NoGuard == [called |-> FALSE, input |-> <<>>, ok |-> FALSE, query |-> <<>>, keyword |-> <<>>]
NoCall == [active |-> FALSE, query |-> <<>>, useCache |-> FALSE, startTime |-> 0,
           expired |-> FALSE,
           retryCount |-> 0, attempts |-> 0, codes |-> <<>>, delays |-> <<>>,
           recreated |-> 0,
           outcome |-> "none", rows |-> [length |-> 0, data |-> "-"], code |-> ""]
NoResult == [success |-> FALSE, data |-> None, executionTime |-> 0, fromCache |-> None,
             rowCount |-> None, error |-> None, errorCode |-> None]
NoResponse == plainResponse(0, "", "")

AgentInit ==
    /\ pc = [p \in Slots |-> "idle"]
    /\ req = [p \in Slots |-> NoRequest]
    /\ gen = [p \in Slots |-> NoGen]
    /\ guarded = [p \in Slots |-> NoGuard]
    /\ call = [p \in Slots |-> NoCall]
    /\ result = [p \in Slots |-> NoResult]
    /\ resp = [p \in Slots |-> NoResponse]
    /\ queryCache = <<>>
    /\ queryHistory = <<>>
    /\ metrics = [totalQueries |-> 0, successfulQueries |-> 0,
                  failedQueries |-> 0, cacheHits |-> 0]
    /\ connectionPool = 1
    /\ now = 0
    /\ started = 0

-----------------------------------------------------------------------------
(* Inputs.                                                                  *)

Questions == {"", "How many companies do we have?"}

StatementById  == <<"S","E","L","E","C","T"," ","c","o","m","p","a","n","y","N","a","m","e"," ","F","R","O","M"," ","c","o","m","p","a","n","y"," ","W","H","E","R","E"," ","c","o","m","p","a","n","y","I","d"," ","="," ","1"," ","L","I","M","I","T"," ","5">>
StatementById2 == <<"S","E","L","E","C","T"," ","c","o","m","p","a","n","y","N","a","m","e"," ","F","R","O","M"," ","c","o","m","p","a","n","y"," ","W","H","E","R","E"," ","c","o","m","p","a","n","y","I","d"," ","="," ","2"," ","L","I","M","I","T"," ","5">>
StatementNoLimit == <<"S","E","L","E","C","T"," ","p","r","o","j","e","c","t","N","a","m","e"," ","F","R","O","M"," ","p","r","o","j","e","c","t","s">>
StatementDrop == <<"D","R","O","P"," ","T","A","B","L","E"," ","c","o","m","p","a","n","y">>
ReplyFencedCount ==
    <<"<backtick>","<backtick>","<backtick>","s","q","l","\n","S","E","L","E","C","T"," ","C","O","U","N","T","(","*",")"," ","F","R","O","M"," ","c","o","m","p","a","n","i","e","s","\n","<backtick>","<backtick>","<backtick>">>

StatementCount == <<"S","E","L","E","C","T"," ","C","O","U","N","T","(","*",")"," ","F","R","O","M"," ","c","o","m","p","a","n","y">>

\* the bodies of POST /direct-sql
DirectStatements == {<<>>, StatementById2, StatementNoLimit, StatementDrop}

\* the bodies of POST /direct-sql in SpecCache: three statements with three
\* cache keys
CacheStatements == {StatementById2, StatementNoLimit, StatementCount}

\* the replies of the model to the prompt of generateSqlQuery
LlmTexts == {StatementById, ReplyFencedCount, StatementDrop}

\* the statuses of a failed call of the model
LlmStatuses == {429, 500}

LlmOutcomes == {LlmReply(t) : t \in LlmTexts} \cup {LlmFailure(s) : s \in LlmStatuses}

\* the results the database gives
RowSets ==
    { [length |-> 0, data |-> "-"],
      [length |-> 1, data |-> "a"],
      [length |-> 1, data |-> "b"],
      [length |-> CacheableRowLimit, data |-> "a"] }

\* the error codes of a failed connectionPool.execute
ErrorCodes ==
    {"ECONNRESET", "PROTOCOL_CONNECTION_LOST", "ETIMEDOUT", "EPIPE",
     "ENOTFOUND", "ER_NO_SUCH_TABLE", "ER_BAD_FIELD_ERROR", "ER_PARSE_ERROR"}

\* the error codes the requests of Spec and SpecCache meet
AgentErrorCodes == {"ER_NO_SUCH_TABLE"}

\* the bodies of POST /direct-sql in SpecFailure
FailureStatements == {StatementById2}

\* the error codes the requests of SpecFailure meet: one for each message of
\* executeSqlQuery, retried or not
FailureErrorCodes ==
    {"ECONNRESET", "ETIMEDOUT", "EPIPE", "ER_NO_SUCH_TABLE", "ER_BAD_FIELD_ERROR",
     "ER_PARSE_ERROR"}

\* the body of POST /direct-sql and the results the database gives in
\* SpecStore: no row, one row, and as many rows as are not cached any more
StoreStatements == {StatementById2}

StoreRowSets ==
    { [length |-> 0, data |-> "-"],
      [length |-> 1, data |-> "a"],
      [length |-> CacheableRowLimit, data |-> "a"] }

\* the results the database gives in SpecCache
CacheRowSets == {[length |-> 1, data |-> "a"]}

DbOutcomes(rowSets, codes) == {DbRows(r) : r \in rowSets} \cup {DbError(c) : c \in codes}

\* generateSqlQuery, validateAndOptimizeQuery and generateCacheKey on the
\* inputs above, each evaluated once
generated == [l \in LlmOutcomes |-> generateSqlQuery(l)]

GuardedStatements ==
    {<<>>} \cup {trim(s) : s \in DirectStatements \cup CacheStatements}
           \cup {generated[l].query : l \in LlmOutcomes}

optimizedOf == [s \in GuardedStatements |-> validateAndOptimizeQuery(s)]

HealthStatement == <<"S","E","L","E","C","T"," ","1"," ","a","s"," ","t","e","s","t">>

\* the statements executeSqlQuery and executeQuery can be called with
DispatchedStatements ==
    {HealthStatement} \cup GuardedStatements
        \cup {optimizedOf[s].query : s \in GuardedStatements}

cacheKeyOf == [q \in DispatchedStatements |-> generateCacheKey(q)]

-----------------------------------------------------------------------------
(* Operations.                                                              *)

\* executeSqlQuery (lines 608-631), from its call to its first suspension:
\* the cache check, and on a miss the first connectionPool.execute of
\* executeQuery. On a hit the caller goes on to its response.
executeSqlQueryEnter(p, request, query, useCache) ==
    LET cacheKey == cacheKeyOf[query]
        present  == useCache /\ cacheHas(queryCache, cacheKey)
        hit      == present /\ isFresh(cacheGet(queryCache, cacheKey), now)
        stale    == present /\ ~hit
    IN  /\ metrics' = [metrics EXCEPT !.totalQueries = @ + 1,
                                      !.cacheHits = IF hit THEN @ + 1 ELSE @]
        /\ queryCache' = IF stale THEN cacheDelete(queryCache, cacheKey) ELSE queryCache
        /\ IF hit
           THEN LET queryResult == CachedResult(cacheGet(queryCache, cacheKey).result, 0)
                IN  /\ call' = [call EXCEPT ![p] =
                                  [NoCall EXCEPT !.active = TRUE, !.query = query,
                                                 !.useCache = useCache,
                                                 !.startTime = now]]
                    /\ result' = [result EXCEPT ![p] = queryResult]
                    /\ \E llmOk \in ComposerOutcomes(request, queryResult) :
                          resp' = [resp EXCEPT ![p] =
                                     responseFor(request, query, queryResult, llmOk)]
                    /\ pc' = [pc EXCEPT ![p] = "done"]
           ELSE /\ call' = [call EXCEPT ![p] =
                              [NoCall EXCEPT !.active = TRUE, !.query = query,
                                             !.useCache = useCache, !.startTime = now,
                                             !.expired = stale,
                                             !.attempts = 1, !.outcome = "pending"]]
                /\ pc' = [pc EXCEPT ![p] = "execute"]
                /\ UNCHANGED <<result, resp>>

\* a request ends with a response that carries a message only
respondPlain(p, status, message, error) ==
    /\ resp' = [resp EXCEPT ![p] = plainResponse(status, message, error)]
    /\ pc' = [pc EXCEPT ![p] = "done"]
    /\ UNCHANGED <<call, result, queryCache, metrics>>

\* POST /query (lines 72-97) up to the call of the model in generateSqlQuery,
\* for a request the rate limit check of lines 86-94 lets through (the check
\* itself is RateLimitedQueryRequest). selectCategory, selectTables and
\* getSchemaInfo change no state of the agent.
QueryRequest(p, question, useCache) ==
    /\ pc[p] = "idle"
    /\ started' = started + 1
    /\ req' = [req EXCEPT ![p] = [route |-> "query", question |-> question,
                                  statement |-> <<>>, useCache |-> useCache]]
    /\ IF question = ""
       THEN /\ resp' = [resp EXCEPT ![p] =
                          plainResponse(400, "Question is required", "")]
            /\ pc' = [pc EXCEPT ![p] = "done"]
       ELSE /\ pc' = [pc EXCEPT ![p] = "generate"]
            /\ UNCHANGED resp
    /\ UNCHANGED <<gen, guarded, call, result, queryCache, queryHistory, metrics,
                   connectionPool, now>>

\* processQuestion from the reply of the model to generateSqlQuery (line 512)
\* on: steps 4 to 6, and on a cache hit step 7 and the response of the route.
\* executeSqlQuery is called with one argument (line 766), so its useCache
\* is the default true.
GenerateReturn(p, llm) ==
    /\ pc[p] = "generate"
    /\ LET sqlQuery == generated[llm]
           optimized == optimizedOf[sqlQuery.query]
       IN  /\ gen' = [gen EXCEPT ![p] = [called |-> TRUE, status |-> llm.status,
                                         ok |-> sqlQuery.ok, query |-> sqlQuery.query,
                                         error |-> sqlQuery.error]]
           /\ IF ~sqlQuery.ok
              THEN /\ resp' = [resp EXCEPT ![p] =
                                 queryResponse(processQuestionFailure(sqlQuery.error))]
                   /\ pc' = [pc EXCEPT ![p] = "done"]
                   /\ UNCHANGED <<guarded, call, result, queryCache, metrics>>
              ELSE /\ guarded' = [guarded EXCEPT ![p] =
                                    [called |-> TRUE, input |-> sqlQuery.query,
                                     ok |-> optimized.ok, query |-> optimized.query,
                                     keyword |-> optimized.keyword]]
                   /\ IF ~optimized.ok
                      THEN /\ resp' = [resp EXCEPT ![p] = queryResponse(
                                         processQuestionFailure(ProhibitedKeywordMessage))]
                           /\ pc' = [pc EXCEPT ![p] = "done"]
                           /\ UNCHANGED <<call, result, queryCache, metrics>>
                      ELSE executeSqlQueryEnter(p, req[p], optimized.query, TRUE)
    /\ UNCHANGED <<req, queryHistory, connectionPool, now, started>>

\* the route passing the body on without the guard
directSqlGuard_unvalidated(statement) ==
    [ok |-> TRUE, query |-> trim(statement), keyword |-> <<>>]

\* the guard as POST /direct-sql applies it (line 175)
directSqlGuard(statement) == optimizedOf[trim(statement)]

\* POST /direct-sql (lines 148-217) up to the first suspension of
\* executeSqlQuery, or to its response
DirectSqlRequest(p, statement, useCache, isAdmin) ==
    /\ pc[p] = "idle"
    /\ started' = started + 1
    /\ LET request == [route |-> "direct-sql", question |-> "",
                       statement |-> statement, useCache |-> useCache]
           optimized == directSqlGuard(statement)
       IN  /\ req' = [req EXCEPT ![p] = request]
           /\ IF ~isAdmin
              THEN /\ respondPlain(p, 403, "Access denied", "")
                   /\ UNCHANGED guarded
              ELSE IF trim(statement) = <<>>
              THEN /\ respondPlain(p, 400, "SQL query is required", "")
                   /\ UNCHANGED guarded
              ELSE /\ guarded' = [guarded EXCEPT ![p] =
                                    [called |-> TRUE, input |-> trim(statement),
                                     ok |-> optimized.ok, query |-> optimized.query,
                                     keyword |-> optimized.keyword]]
                   /\ IF ~optimized.ok
                      THEN respondPlain(p, 400, "Query validation failed",
                                        ProhibitedKeywordMessage)
                      ELSE executeSqlQueryEnter(p, request, optimized.query, useCache)
    /\ UNCHANGED <<gen, queryHistory, connectionPool, now>>

\* GET /health (lines 31-35, 797-800): healthCheck calls executeQuery itself
HealthRequest(p) ==
    /\ pc[p] = "idle"
    /\ started' = started + 1
    /\ req' = [req EXCEPT ![p] = [NoRequest EXCEPT !.route = "health"]]
    /\ call' = [call EXCEPT ![p] =
                  [NoCall EXCEPT !.query = HealthStatement,
                                 !.attempts = 1, !.outcome = "pending"]]
    /\ pc' = [pc EXCEPT ![p] = "execute"]
    /\ UNCHANGED <<gen, guarded, result, resp, queryCache, queryHistory, metrics,
                   connectionPool, now>>

\* executeSqlQuery after executeQuery returned rows (lines 633-662), and the
\* response of the caller
executeSqlQuerySucceed(p, rows) ==
    LET c == call[p]
        cacheKey == cacheKeyOf[c.query]
        executionTime == now - c.startTime
        queryResult == ExecutedResult(rows, executionTime)
    IN  /\ queryCache' = storeResult(queryCache, c.useCache, cacheKey, rows, now)
        /\ metrics' = [metrics EXCEPT !.successfulQueries = @ + 1]
        /\ queryHistory' = addToQueryHistory(queryHistory, c.query, TRUE, executionTime,
                                             rows.length, "", now)
        /\ result' = [result EXCEPT ![p] = queryResult]
        /\ \E llmOk \in ComposerOutcomes(req[p], queryResult) :
              resp' = [resp EXCEPT ![p] = responseFor(req[p], c.query, queryResult, llmOk)]

\* a failure that is returned without being counted
executeSqlQueryFail_uncounted(p, code) ==
    LET c == call[p]
        executionTime == now - c.startTime
        queryResult == FailureResult(code, executionTime)
    IN  /\ queryHistory' = addToQueryHistory(queryHistory, c.query, FALSE, executionTime,
                                             0, driverMessage(code), now)
        /\ result' = [result EXCEPT ![p] = queryResult]
        /\ resp' = [resp EXCEPT ![p] = responseFor(req[p], c.query, queryResult, FALSE)]
        /\ UNCHANGED <<queryCache, metrics>>

\* executeSqlQuery after executeQuery threw (lines 664-687), and the
\* response of the caller
executeSqlQueryFail(p, code) ==
    LET c == call[p]
        executionTime == now - c.startTime
        queryResult == FailureResult(code, executionTime)
    IN  /\ metrics' = [metrics EXCEPT !.failedQueries = @ + 1]
        /\ queryHistory' = addToQueryHistory(queryHistory, c.query, FALSE, executionTime,
                                             0, driverMessage(code), now)
        /\ result' = [result EXCEPT ![p] = queryResult]
        /\ resp' = [resp EXCEPT ![p] = responseFor(req[p], c.query, queryResult, FALSE)]
        /\ UNCHANGED queryCache

\* connectionPool.execute settles inside executeQuery (lines 74-107): rows are
\* returned, a connection error with retries left starts the backoff, any
\* other error is thrown to the caller
PoolReturn(p, outcome) ==
    /\ pc[p] = "execute"
    /\ IF outcome.ok
       THEN /\ call' = [call EXCEPT ![p].outcome = "returned", ![p].rows = outcome.rows]
            /\ pc' = [pc EXCEPT ![p] = "done"]
            /\ IF call[p].active
               THEN executeSqlQuerySucceed(p, outcome.rows)
               ELSE /\ \E llmOk \in BOOLEAN :
                          resp' = [resp EXCEPT ![p] = healthResponse(llmOk)]
                    /\ UNCHANGED <<result, queryCache, queryHistory, metrics>>
       ELSE IF shouldRetry(outcome.code, call[p].retryCount)
       THEN /\ call' = [call EXCEPT
                          ![p].retryCount = @ + 1,
                          ![p].codes = Append(@, outcome.code),
                          ![p].delays = Append(@, backoffDelay(call[p].retryCount + 1))]
            /\ pc' = [pc EXCEPT ![p] = "backoff"]
            /\ UNCHANGED <<result, resp, queryCache, queryHistory, metrics>>
       ELSE /\ call' = [call EXCEPT ![p].outcome = "thrown", ![p].code = outcome.code,
                                     ![p].codes = Append(@, outcome.code)]
            /\ pc' = [pc EXCEPT ![p] = "done"]
            /\ IF call[p].active
               THEN executeSqlQueryFail(p, outcome.code)
               ELSE /\ resp' = [resp EXCEPT ![p] = healthResponse(FALSE)]
                    /\ UNCHANGED <<result, queryCache, queryHistory, metrics>>
    /\ UNCHANGED <<req, gen, guarded, connectionPool, now, started>>

\* the backoff timer of executeQuery fires (lines 89-101, 74): on the second
\* retry the pool is ended and created again (replaced is whether a new pool
\* took its place: end() may throw first, and the error is only logged),
\* then the loop goes round: the next attempt is issued, or with the loop
\* condition false executeQuery returns undefined, which healthCheck ignores
\* and which makes rows.length raise a TypeError in executeSqlQuery (line 636)
BackoffDone(p, replaced) ==
    /\ pc[p] = "backoff"
    /\ IF recreatesPool(call[p].retryCount)
       THEN connectionPool' = IF replaced THEN connectionPool + 1 ELSE connectionPool
       ELSE replaced = FALSE /\ UNCHANGED connectionPool
    /\ LET recreated == IF recreatesPool(call[p].retryCount) THEN 1 ELSE 0
       IN  IF loopContinues(call[p].retryCount)
           THEN /\ call' = [call EXCEPT ![p].attempts = @ + 1,
                                        ![p].recreated = @ + recreated]
                /\ pc' = [pc EXCEPT ![p] = "execute"]
                /\ UNCHANGED <<result, resp, queryCache, queryHistory, metrics>>
           ELSE /\ call' = [call EXCEPT ![p].outcome = "undefined",
                                        ![p].recreated = @ + recreated]
                /\ pc' = [pc EXCEPT ![p] = "done"]
                /\ IF call[p].active
                   THEN executeSqlQueryFail(p, "")
                   ELSE /\ \E llmOk \in BOOLEAN :
                              resp' = [resp EXCEPT ![p] = healthResponse(llmOk)]
                        /\ UNCHANGED <<result, queryCache, queryHistory, metrics>>
    /\ UNCHANGED <<req, gen, guarded, now, started>>

\* the response has been sent: the slot is free again
Finish(p) ==
    /\ pc[p] = "done"
    /\ pc' = [pc EXCEPT ![p] = "idle"]
    /\ req' = [req EXCEPT ![p] = NoRequest]
    /\ gen' = [gen EXCEPT ![p] = NoGen]
    /\ guarded' = [guarded EXCEPT ![p] = NoGuard]
    /\ call' = [call EXCEPT ![p] = NoCall]
    /\ result' = [result EXCEPT ![p] = NoResult]
    /\ resp' = [resp EXCEPT ![p] = NoResponse]
    /\ UNCHANGED <<queryCache, queryHistory, metrics, connectionPool, now, started>>

\* POST /clear-cache by an administrator: clearCache (lines 887-890)
ClearCache ==
    /\ queryCache # <<>>
    /\ queryCache' = <<>>
    /\ UNCHANGED <<pc, req, gen, guarded, call, result, resp, queryHistory, metrics,
                   connectionPool, now, started>>

\* time passes
Tick ==
    /\ now < MaxTicks * TickMs
    /\ now' = now + TickMs
    /\ UNCHANGED <<pc, req, gen, guarded, call, result, resp, queryCache, queryHistory,
                   metrics, connectionPool, started>>
-----------------------------------------------------------------------------
(* Category and table selection: getCategoryMapping, selectCategory,       *)
(* selectTables.                                                           *)

\* String.prototype.toLowerCase of one character: a capital maps to its
\* small letter, U+0130 (capital I with dot above) to "i" followed by the
\* combining dot above, and any other character of the model to itself.
LowerCaseOfLetter ==
    [c \in {UpperLetters[i] : i \in 1..Len(UpperLetters)} |->
        LowerLetters[CHOOSE i \in 1..Len(UpperLetters) : UpperLetters[i] = c]]

toLowerCaseChar(c) ==
    IF c \in DOMAIN LowerCaseOfLetter THEN <<LowerCaseOfLetter[c]>>
    ELSE IF c = "<capital-dotted-i>" THEN <<"i", "<combining-dot>">>
    ELSE <<c>>

\* String.prototype.toLowerCase (in halves, as toUpperCase)
RECURSIVE toLowerCase(_)
toLowerCase(s) ==
    IF s = <<>> THEN <<>>
    ELSE IF Len(s) = 1 THEN toLowerCaseChar(s[1])
    ELSE LET half == Len(s) \div 2
         IN  toLowerCase(SubSeq(s, 1, half)) \o toLowerCase(SubSeq(s, half + 1, Len(s)))

\* getCategoryMapping: the categories in the order of the object literal,
\* each with its tables and its keywords
getCategoryMapping ==
    <<
       [name |-> <<"C","o","m","p","a","n","y"," ","/"," ","O","r","g","a","n","i","z","a","t","i","o","n">>,
        tables |-> <<
            <<"c","o","m","p","a","n","y">>,
            <<"p","l","a","t","f","o","r","m","c","o","n","f","i","g">>,
            <<"u","s","e","r","_","c","o","m","p","a","n","y","_","r","e","l","a","t","i","o","n","s">>,
            <<"s","y","s","t","e","m","_","c","o","u","n","t","r","y","_","c","u","r","r","e","n","c","y">>,
            <<"s","y","s","t","e","m","_","r","o","l","e">>,
            <<"s","y","s","t","e","m","_","s","t","a","t","u","s">>,
            <<"s","y","s","t","e","m","_","t","y","p","e">>,
            <<"s","y","s","t","e","m","_","s","u","r","v","e","y","_","t","e","m","p","l","a","t","e">>,
            <<"c","o","u","n","t","r","i","e","s">>,
            <<"p","l","a","t","f","o","r","m","u","s","e","r","s">>,
            <<"p","e","r","m","i","s","s","i","o","n","s">>,
            <<"l","o","g","i","n","h","i","s","t","o","r","y">> >>,
        keywords |-> <<
            <<"c","o","m","p","a","n","y">>,
            <<"o","r","g","a","n","i","z","a","t","i","o","n">>,
            <<"c","o","n","f","i","g">>,
            <<"s","y","s","t","e","m">>,
            <<"c","o","u","n","t","r","y">>,
            <<"c","u","r","r","e","n","c","y">>,
            <<"p","l","a","t","f","o","r","m">>,
            <<"u","s","e","r">> >>],
       [name |-> <<"U","s","e","r","s"," ","/"," ","T","e","a","m","s">>,
        tables |-> <<
            <<"c","o","n","t","a","c","t","s">>,
            <<"c","o","n","t","a","c","t","s","_","b","a","c","k","u","p","_","2","0","2","5","0","2","1","1">>,
            <<"c","o","n","t","a","c","t","s","a","l","a","r","y">>,
            <<"t","e","a","m","m","e","m","b","e","r","s">>,
            <<"t","e","a","m","m","e","m","b","e","r","s","_","b","k","u","p","2","0","2","4","1","0","2","9">>,
            <<"t","e","a","m","m","e","m","b","e","r","s","_","s","t","a","g","e">>,
            <<"p","l","a","t","f","o","r","m","u","s","e","r","s">>,
            <<"p","e","r","m","i","s","s","i","o","n","s">>,
            <<"l","o","g","i","n","h","i","s","t","o","r","y">>,
            <<"r","e","c","e","n","t","l","y","v","i","e","w","e","d">>,
            <<"r","o","l","e","s">>,
            <<"r","o","l","e","f","e","a","t","u","r","e","s">> >>,
        keywords |-> <<
            <<"u","s","e","r">>,
            <<"c","o","n","t","a","c","t">>,
            <<"t","e","a","m">>,
            <<"m","e","m","b","e","r">>,
            <<"r","o","l","e">>,
            <<"p","e","r","m","i","s","s","i","o","n">>,
            <<"l","o","g","i","n">>,
            <<"s","a","l","a","r","y">>,
            <<"e","m","p","l","o","y","e","e">> >>],
       [name |-> <<"P","r","o","j","e","c","t","s">>,
        tables |-> <<
            <<"p","r","o","j","e","c","t","s">>,
            <<"p","r","o","j","e","c","t","m","i","l","e","s","t","o","n","e","s">>,
            <<"p","o","r","t","f","o","l","i","o","_","p","r","o","j","e","c","t","s","_","r","e","l">>,
            <<"p","o","r","t","f","o","l","i","o","s">>,
            <<"p","r","o","j","e","c","t","f","i","n","a","n","c","i","a","l","d","a","i","l","y">>,
            <<"s","_","p","r","o","j","e","c","t","s">>,
            <<"t","e","m","p","_","p","r","o","j","e","c","t","l","i","s","t">>,
            <<"m","a","s","t","e","r","_","c","a","s","e","_","p","r","o","j","e","c","t">>,
            <<"m","a","s","t","e","r","_","c","a","s","e","_","p","r","o","j","e","c","t","_","b","a","c","k","u","p","_","2","0","2","5","0","2","1","9">> >>,
        keywords |-> <<
            <<"p","r","o","j","e","c","t">>,
            <<"m","i","l","e","s","t","o","n","e">>,
            <<"p","o","r","t","f","o","l","i","o">>,
            <<"f","i","n","a","n","c","i","a","l">>,
            <<"b","u","d","g","e","t">>,
            <<"c","a","s","e">> >>],
       [name |-> <<"T","i","m","e","s","h","e","e","t","s">>,
        tables |-> <<
            <<"t","i","m","e","s","h","e","e","t","d","a","t","a">>,
            <<"t","i","m","e","s","h","e","e","t","s">>,
            <<"t","i","m","e","s","h","e","e","t","s","r","a","w">>,
            <<"t","i","m","e","s","h","e","e","t","t","a","s","k","s">>,
            <<"t","i","m","e","s","h","e","e","t","t","a","s","k","s","c","a","c","h","e">>,
            <<"t","i","m","e","s","h","e","e","t","u","p","l","o","a","d","l","o","g">>,
            <<"x","_","t","i","m","e","s","h","e","e","t">>,
            <<"s","_","t","e","a","m","m","e","m","b","e","r","s">> >>,
        keywords |-> <<
            <<"t","i","m","e","s","h","e","e","t">>,
            <<"t","i","m","e">>,
            <<"h","o","u","r","s">>,
            <<"t","a","s","k">>,
            <<"u","p","l","o","a","d">>,
            <<"r","a","w">>,
            <<"e","f","f","o","r","t">> >>],
       [name |-> <<"R","e","p","o","r","t","s"," ","/"," ","S","u","m","m","a","r","i","e","s">>,
        tables |-> <<
            <<"c","o","n","s","o","l","i","d","a","t","e","d","_","s","u","m","m","a","r","y">>,
            <<"m","o","d","_","c","o","n","s","o","l","i","d","a","t","e","d","_","s","u","m","m","a","r","y">>,
            <<"r","e","c","o","n","c","i","l","i","a","t","i","o","n","s">>,
            <<"m","a","s","t","e","r","_","s","h","e","e","t","s">>,
            <<"m","a","s","t","e","r","_","s","h","e","e","t","s","_","d","a","t","a">>,
            <<"a","c","t","i","v","i","t","y","l","o","g","s">>,
            <<"a","l","e","r","t","s">>,
            <<"n","o","t","e","s">>,
            <<"n","a","g","g","i","n","g","d","e","t","a","i","l","s">>,
            <<"m","a","s","t","e","r","_","p","r","o","j","e","c","t","_","a","i","_","s","u","m","m","a","r","y">>,
            <<"m","a","s","t","e","r","_","p","r","o","j","e","c","t","_","a","i","_","s","u","m","m","a","r","y","_","s","e","c","t","i","o","n","s">>,
            <<"m","a","s","t","e","r","_","p","r","o","j","e","c","t","_","a","i","_","s","u","m","m","a","r","y","_","s","o","u","r","c","e">>,
            <<"m","a","s","t","e","r","_","p","r","o","j","e","c","t","_","s","u","m","m","a","r","i","z","e","r","_","l","o","g","s">>,
            <<"m","a","s","t","e","r","_","p","r","o","j","e","c","t","_","s","u","m","m","a","r","i","z","e","r","_","l","o","g","s","_","b","k","u","p","2","0","2","4","1","0","0","8">> >>,
        keywords |-> <<
            <<"s","u","m","m","a","r","y">>,
            <<"r","e","p","o","r","t">>,
            <<"c","o","n","s","o","l","i","d","a","t","e","d">>,
            <<"r","e","c","o","n","c","i","l","i","a","t","i","o","n">>,
            <<"a","l","e","r","t">>,
            <<"n","o","t","e">>,
            <<"a","c","t","i","v","i","t","y">>,
            <<"s","h","e","e","t">> >>],
       [name |-> <<"A","I"," ","/"," ","I","n","t","e","r","a","c","t","i","o","n","s">>,
        tables |-> <<
            <<"i","n","t","e","r","a","c","t","i","o","n","s">>,
            <<"i","n","t","e","r","a","c","t","i","o","n","s","_","a","r","t","i","f","a","c","t","s">>,
            <<"i","n","t","e","r","a","c","t","i","o","n","s","_","s","e","n","t">>,
            <<"m","a","s","t","e","r","_","a","i","_","c","o","n","f","i","g","u","r","a","t","i","o","n","s">>,
            <<"m","a","s","t","e","r","_","a","i","_","l","l","m","_","l","o","g","s">>,
            <<"m","a","s","t","e","r","_","a","i","_","r","e","q","u","e","s","t">>,
            <<"m","a","s","t","e","r","_","a","i","_","k","n","o","w","l","e","d","g","e","_","b","a","s","e">>,
            <<"m","a","s","t","e","r","_","p","r","o","j","e","c","t","_","a","i","_","a","s","s","e","s","s","m","e","n","t">>,
            <<"m","a","s","t","e","r","_","p","r","o","j","e","c","t","_","a","i","_","i","n","t","e","r","a","c","t","i","o","n">>,
            <<"m","a","s","t","e","r","_","i","n","t","e","r","a","c","t","i","o","n","s">>,
            <<"m","a","s","t","e","r","_","i","n","t","e","r","a","c","t","i","o","n","s","_","q","a">> >>,
        keywords |-> <<
            <<"a","i">>,
            <<"i","n","t","e","r","a","c","t","i","o","n">>,
            <<"a","r","t","i","f","a","c","t">>,
            <<"l","l","m">>,
            <<"a","s","s","e","s","s","m","e","n","t">>,
            <<"c","o","n","f","i","g","u","r","a","t","i","o","n">>,
            <<"k","n","o","w","l","e","d","g","e">> >>],
       [name |-> <<"C","a","s","e","s">>,
        tables |-> <<
            <<"c","a","s","e">>,
            <<"m","a","s","t","e","r","_","c","a","s","e">>,
            <<"m","a","s","t","e","r","_","c","a","s","e","_","p","r","o","j","e","c","t">>,
            <<"m","a","s","t","e","r","_","c","a","s","e","_","p","r","o","j","e","c","t","_","b","a","c","k","u","p","_","2","0","2","5","0","2","1","9">> >>,
        keywords |-> <<
            <<"c","a","s","e">>,
            <<"l","e","g","a","l">>,
            <<"i","s","s","u","e">>,
            <<"c","l","a","i","m">> >>],
       [name |-> <<"D","o","c","u","m","e","n","t","s">>,
        tables |-> <<
            <<"d","o","c","u","m","e","n","t","s">>,
            <<"m","a","s","t","e","r","_","d","o","c","u","m","e","n","t","_","t","y","p","e","_","m","a","p","p","i","n","g">> >>,
        keywords |-> <<
            <<"d","o","c","u","m","e","n","t">>,
            <<"f","i","l","e">>,
            <<"u","p","l","o","a","d">>,
            <<"a","t","t","a","c","h","m","e","n","t">>,
            <<"d","o","c">> >>],
       [name |-> <<"S","u","r","v","e","y","s">>,
        tables |-> <<
            <<"m","a","s","t","e","r","_","s","u","r","v","e","y">>,
            <<"m","a","s","t","e","r","_","s","u","r","v","e","y","_","a","n","s","w","e","r">>,
            <<"m","a","s","t","e","r","_","s","u","r","v","e","y","_","a","n","s","w","e","r","_","b","a","t","c","h">>,
            <<"m","a","s","t","e","r","_","s","u","r","v","e","y","_","a","s","s","i","g","n","m","e","n","t">>,
            <<"m","a","s","t","e","r","_","s","u","r","v","e","y","_","c","o","n","t","r","o","l">>,
            <<"s","y","s","t","e","m","_","s","u","r","v","e","y","_","q","u","e","s","t","i","o","n">>,
            <<"g","e","t","_","s","u","r","v","e","y","_","r","e","s","p","o","n","s","e","s">>,
            <<"b","a","t","c","h","u","p","l","o","a","d","_","s","u","r","v","e","y","_","r","e","s","p","o","n","s","e","s">>,
            <<"v","w","_","s","u","r","v","e","y">>,
            <<"m","a","s","t","e","r","_","s","u","r","v","e","y","_","b","a","c","k","u","p","_","2","0","2","5","0","2","1","9">>,
            <<"m","a","s","t","e","r","_","s","u","r","v","e","y","_","b","k","u","p","2","0","2","4","1","0","0","8">>,
            <<"m","a","s","t","e","r","_","s","u","r","v","e","y","_","b","k","u","p","2","0","2","5","0","1","2","9">>,
            <<"m","a","s","t","e","r","_","s","u","r","v","e","y","_","a","n","s","w","e","r","_","b","k","u","p","2","0","2","4","1","0","0","8">>,
            <<"m","a","s","t","e","r","_","s","u","r","v","e","y","_","a","n","s","w","e","r","_","b","k","u","p","2","0","2","5","0","1","2","9">>,
            <<"m","a","s","t","e","r","_","s","u","r","v","e","y","_","c","o","n","t","r","o","l","_","b","a","c","k","u","p","_","2","0","2","5","0","2","1","9">>,
            <<"m","a","s","t","e","r","_","s","u","r","v","e","y","_","c","o","n","t","r","o","l","_","b","k","u","p","2","0","2","4","1","0","0","8">> >>,
        keywords |-> <<
            <<"s","u","r","v","e","y">>,
            <<"q","u","e","s","t","i","o","n">>,
            <<"a","n","s","w","e","r">>,
            <<"r","e","s","p","o","n","s","e">>,
            <<"a","s","s","i","g","n","m","e","n","t">>,
            <<"b","a","t","c","h">> >>],
       [name |-> <<"F","i","n","a","n","c","i","a","l"," ","/"," ","D","y","n","a","m","i","c","s">>,
        tables |-> <<
            <<"p","r","o","j","e","c","t","f","i","n","a","n","c","i","a","l","d","a","i","l","y">>,
            <<"c","o","n","t","a","c","t","s","a","l","a","r","y">>,
            <<"t","r","d","3","6","5","_","a","c","c","o","u","n","t","_","f","i","s","c","a","l">>,
            <<"t","r","d","3","6","5","_","a","c","c","o","u","n","t","s">>,
            <<"t","r","d","3","6","5","_","c","o","u","n","t","r","y">>,
            <<"t","r","d","3","6","5","_","p","r","o","j","e","c","t","_","f","i","s","c","a","l">>,
            <<"t","r","d","3","6","5","_","p","r","o","j","e","c","t","_","f","i","s","c","a","l","_","r","e","s","o","u","r","c","e","s">>,
            <<"t","r","d","3","6","5","_","p","r","o","j","e","c","t","s">>,
            <<"t","r","d","3","6","5","_","r","e","s","o","u","r","c","e","s">> >>,
        keywords |-> <<
            <<"f","i","n","a","n","c","i","a","l">>,
            <<"f","i","s","c","a","l">>,
            <<"a","c","c","o","u","n","t">>,
            <<"s","a","l","a","r","y">>,
            <<"c","o","s","t">>,
            <<"r","e","v","e","n","u","e">>,
            <<"d","y","n","a","m","i","c","s">>,
            <<"3","6","5">> >>],
       [name |-> <<"M","a","p","p","i","n","g","s"," ","/"," ","C","o","n","f","i","g","u","r","a","t","i","o","n","s">>,
        tables |-> <<
            <<"m","a","p","p","i","n","g">>,
            <<"m","a","s","t","e","r","_","c","o","m","p","a","n","y","_","m","a","i","l","_","c","o","n","f","i","g","u","r","a","t","i","o","n">>,
            <<"m","a","s","t","e","r","_","c","o","m","p","a","n","y","_","m","a","p","p","e","r">>,
            <<"m","a","s","t","e","r","_","m","a","p","p","e","r">>,
            <<"m","a","s","t","e","r","_","m","a","p","p","e","r","_","a","t","t","r","i","b","u","t","e","s">>,
            <<"w","o","r","k","f","l","o","w">>,
            <<"m","a","s","t","e","r","_","i","n","t","e","n","t">>,
            <<"m","a","s","t","e","r","_","i","n","t","e","n","t","_","f","r","a","m","e","w","o","r","k">>,
            <<"m","a","s","t","e","r","_","i","n","t","e","n","t","_","f","r","a","m","e","w","o","r","k","_","c","o","m","p","a","n","y">> >>,
        keywords |-> <<
            <<"m","a","p","p","i","n","g">>,
            <<"m","a","p","p","e","r">>,
            <<"c","o","n","f","i","g">>,
            <<"w","o","r","k","f","l","o","w">>,
            <<"i","n","t","e","n","t">>,
            <<"f","r","a","m","e","w","o","r","k">>,
            <<"m","a","i","l">> >>] >>

\* one more match is better than the best so far (line 299)
betterMatch_onTies(score, bestMatch) == score >= bestMatch.score

betterMatch(score, bestMatch) == score > bestMatch.score

\* the score of one category (lines 290-297): the lengths of its keywords
\* that occur in the lowercased question, added up
RECURSIVE categoryScore(_, _)
categoryScore(questionLower, keywords) ==
    IF keywords = <<>> THEN 0
    ELSE (IF includes(questionLower, Head(keywords)) THEN Len(Head(keywords)) ELSE 0)
            + categoryScore(questionLower, Tail(keywords))

\* bestMatch after the first n categories of the mapping (lines 287-302)
RECURSIVE bestMatchAfter(_, _)
bestMatchAfter(questionLower, n) ==
    IF n = 0 THEN [category |-> None, score |-> 0]
    ELSE LET bestMatch == bestMatchAfter(questionLower, n - 1)
             categoryData == getCategoryMapping[n]
             score == categoryScore(questionLower, categoryData.keywords)
         IN  IF betterMatch(score, bestMatch)
             THEN [category |-> Some(categoryData.name), score |-> score]
             ELSE bestMatch

\* the names every object inherits from Object.prototype: categories is an
\* object literal, so categories[name] finds them too
ObjectPrototypeProperties ==
    { <<"c","o","n","s","t","r","u","c","t","o","r">>,
      <<"t","o","S","t","r","i","n","g">>,
      <<"t","o","L","o","c","a","l","e","S","t","r","i","n","g">>,
      <<"v","a","l","u","e","O","f">>,
      <<"h","a","s","O","w","n","P","r","o","p","e","r","t","y">>,
      <<"i","s","P","r","o","t","o","t","y","p","e","O","f">>,
      <<"p","r","o","p","e","r","t","y","I","s","E","n","u","m","e","r","a","b","l","e">>,
      <<"_","_","p","r","o","t","o","_","_">> }

categoryNames == {getCategoryMapping[i].name : i \in DOMAIN getCategoryMapping}

\* categories[name].tables, for a name of the mapping
tablesOfCategory(name) ==
    getCategoryMapping[CHOOSE i \in DOMAIN getCategoryMapping :
                           getCategoryMapping[i].name = name].tables

\* the reply counts as a category under hasOwnProperty only
categoryLookup_ownOnly(name) ==
    IF name \in categoryNames
    THEN [truthy |-> TRUE, tables |-> Some(tablesOfCategory(name))]
    ELSE [truthy |-> FALSE, tables |-> None]

\* categories[categoryName] and categories[categoryName].tables (lines 319,
\* 320): an inherited property is truthy and has no tables (undefined)
categoryLookup(name) ==
    IF name \in categoryNames
    THEN [truthy |-> TRUE, tables |-> Some(tablesOfCategory(name))]
    ELSE IF name \in ObjectPrototypeProperties
    THEN [truthy |-> TRUE, tables |-> None]
    ELSE [truthy |-> FALSE, tables |-> None]

General == <<"G","e","n","e","r","a","l">>

\* Array.from(this.tableSchemas.keys())
schemaKeys(tableSchemas) == [i \in DOMAIN tableSchemas |-> tableSchemas[i].name]

\* selectCategory (lines 283-330). llm is what this.model.generateContent
\* gives when it is called; tables is Some(list), or None for undefined;
\* llmCalls counts the calls of the model.
selectCategory(question, llm, tableSchemas) ==
    LET questionLower == toLowerCase(question)
        bestMatch == bestMatchAfter(questionLower, Len(getCategoryMapping))
        categoryName == trim(llm.text)
        fallback ==
            IF bestMatch.category # None
            THEN [category |-> bestMatch.category[1],
                  tables |-> Some(tablesOfCategory(bestMatch.category[1]))]
            ELSE [category |-> General, tables |-> Some(schemaKeys(tableSchemas))]
    IN  IF bestMatch.score = 0
        THEN IF llm.ok /\ categoryLookup(categoryName).truthy
             THEN [category |-> categoryName,
                   tables |-> categoryLookup(categoryName).tables, llmCalls |-> 1]
             ELSE [category |-> fallback.category, tables |-> fallback.tables,
                   llmCalls |-> 1]
        ELSE [category |-> fallback.category, tables |-> fallback.tables,
              llmCalls |-> 0]

\* keywordTableMap (lines 340-365), in the order of the object literal
keywordTableMap ==
    <<
       [keyword |-> <<"c","o","m","p","a","n","y">>,
        tables |-> << <<"c","o","m","p","a","n","y">> >>],
       [keyword |-> <<"c","o","m","p","a","n","i","e","s">>,
        tables |-> << <<"c","o","m","p","a","n","y">> >>],
       [keyword |-> <<"o","r","g","a","n","i","z","a","t","i","o","n">>,
        tables |-> << <<"c","o","m","p","a","n","y">> >>],
       [keyword |-> <<"p","r","o","j","e","c","t">>,
        tables |-> << <<"p","r","o","j","e","c","t","s">> >>],
       [keyword |-> <<"p","r","o","j","e","c","t","s">>,
        tables |-> << <<"p","r","o","j","e","c","t","s">> >>],
       [keyword |-> <<"c","o","n","t","a","c","t">>,
        tables |-> << <<"c","o","n","t","a","c","t","s">> >>],
       [keyword |-> <<"c","o","n","t","a","c","t","s">>,
        tables |-> << <<"c","o","n","t","a","c","t","s">> >>],
       [keyword |-> <<"u","s","e","r">>,
        tables |-> << <<"c","o","n","t","a","c","t","s">>, <<"p","l","a","t","f","o","r","m","u","s","e","r","s">> >>],
       [keyword |-> <<"u","s","e","r","s">>,
        tables |-> << <<"c","o","n","t","a","c","t","s">>, <<"p","l","a","t","f","o","r","m","u","s","e","r","s">> >>],
       [keyword |-> <<"t","e","a","m">>,
        tables |-> << <<"t","e","a","m","m","e","m","b","e","r","s">> >>],
       [keyword |-> <<"t","e","a","m","s">>,
        tables |-> << <<"t","e","a","m","m","e","m","b","e","r","s">> >>],
       [keyword |-> <<"t","i","m","e","s","h","e","e","t">>,
        tables |-> << <<"t","i","m","e","s","h","e","e","t","t","a","s","k","s">>, <<"t","i","m","e","s","h","e","e","t","s">> >>],
       [keyword |-> <<"t","i","m","e","s","h","e","e","t","s">>,
        tables |-> << <<"t","i","m","e","s","h","e","e","t","t","a","s","k","s">>, <<"t","i","m","e","s","h","e","e","t","s">> >>],
       [keyword |-> <<"s","u","r","v","e","y">>,
        tables |-> << <<"m","a","s","t","e","r","_","s","u","r","v","e","y">>, <<"m","a","s","t","e","r","_","s","u","r","v","e","y","_","a","n","s","w","e","r">> >>],
       [keyword |-> <<"s","u","r","v","e","y","s">>,
        tables |-> << <<"m","a","s","t","e","r","_","s","u","r","v","e","y">>, <<"m","a","s","t","e","r","_","s","u","r","v","e","y","_","a","n","s","w","e","r">> >>],
       [keyword |-> <<"s","u","m","m","a","r","y">>,
        tables |-> << <<"m","a","s","t","e","r","_","p","r","o","j","e","c","t","_","a","i","_","s","u","m","m","a","r","y">>, <<"c","o","n","s","o","l","i","d","a","t","e","d","_","s","u","m","m","a","r","y">> >>],
       [keyword |-> <<"s","u","m","m","a","r","i","e","s">>,
        tables |-> << <<"m","a","s","t","e","r","_","p","r","o","j","e","c","t","_","a","i","_","s","u","m","m","a","r","y">>, <<"c","o","n","s","o","l","i","d","a","t","e","d","_","s","u","m","m","a","r","y">> >>],
       [keyword |-> <<"f","i","n","a","n","c","i","a","l">>,
        tables |-> << <<"p","r","o","j","e","c","t","f","i","n","a","n","c","i","a","l","d","a","i","l","y">>, <<"c","o","n","t","a","c","t","s","a","l","a","r","y">> >>],
       [keyword |-> <<"c","o","s","t">>,
        tables |-> << <<"p","r","o","j","e","c","t","f","i","n","a","n","c","i","a","l","d","a","i","l","y">> >>],
       [keyword |-> <<"s","a","l","a","r","y">>,
        tables |-> << <<"c","o","n","t","a","c","t","s","a","l","a","r","y">> >>],
       [keyword |-> <<"d","o","c","u","m","e","n","t">>,
        tables |-> << <<"d","o","c","u","m","e","n","t","s">> >>],
       [keyword |-> <<"d","o","c","u","m","e","n","t","s">>,
        tables |-> << <<"d","o","c","u","m","e","n","t","s">> >>],
       [keyword |-> <<"c","a","s","e">>,
        tables |-> << <<"m","a","s","t","e","r","_","c","a","s","e">>, <<"m","a","s","t","e","r","_","c","a","s","e","_","p","r","o","j","e","c","t">> >>],
       [keyword |-> <<"c","a","s","e","s">>,
        tables |-> << <<"m","a","s","t","e","r","_","c","a","s","e">>, <<"m","a","s","t","e","r","_","c","a","s","e","_","p","r","o","j","e","c","t">> >>] >>

\* Array.prototype.includes
inList(list, x) == \E i \in DOMAIN list : list[i] = x

\* Set.prototype.add on a set kept in insertion order
setAdd(selected, x) == IF inList(selected, x) THEN selected ELSE Append(selected, x)

RECURSIVE addAll(_, _)
addAll(selected, tables) ==
    IF tables = <<>> THEN selected
    ELSE addAll(setAdd(selected, Head(tables)), Tail(tables))

\* the tables of the first n entries of keywordTableMap whose keyword occurs
\* in the question and that are available (lines 368-376)
RECURSIVE directMatches(_, _, _)
directMatches(questionLower, availableTables, n) ==
    IF n = 0 THEN <<>>
    ELSE LET entry == keywordTableMap[n]
             selected == directMatches(questionLower, availableTables, n - 1)
         IN  IF includes(questionLower, entry.keyword)
             THEN addAll(selected,
                         SelectSeq(entry.tables, LAMBDA t : inList(availableTables, t)))
             ELSE selected

\* this.tableSchemas.get(tableName)
hasSchema(tableSchemas, tableName) ==
    \E i \in DOMAIN tableSchemas : tableSchemas[i].name = tableName

schemaOf(tableSchemas, tableName) ==
    tableSchemas[CHOOSE i \in DOMAIN tableSchemas : tableSchemas[i].name = tableName]

\* String.prototype.split(sep), sep one character
split(s, sep) ==
    LET cuts   == {i \in 1..Len(s) : s[i] = sep}
        starts == {1} \cup {i + 1 : i \in cuts}
        endOf(st) == IF \E c \in cuts : c >= st
                     THEN (CHOOSE c \in cuts : c >= st /\ \A d \in cuts : d >= st => c <= d) - 1
                     ELSE Len(s)
        startAt(k) == CHOOSE st \in starts : Cardinality({t \in starts : t < st}) = k - 1
    IN  [k \in 1..Cardinality(starts) |-> SubSeq(s, startAt(k), endOf(startAt(k)))]

kwName == <<"n","a","m","e">>
kwCount == <<"c","o","u","n","t">>
kwHowMany == <<"h","o","w"," ","m","a","n","y">>
kwProject == <<"p","r","o","j","e","c","t">>
tblProjects == <<"p","r","o","j","e","c","t","s">>
NameSeparator == "_"

\* the score of one table (lines 384-413)
tableScore(questionLower, tableName, schema) ==
    LET tableLower == toLowerCase(tableName)
        tableNameParts == split(tableLower, NameSeparator)
        columnNames == [i \in DOMAIN schema.columns |-> toLowerCase(schema.columns[i])]
        count(S) == Cardinality(S)
    IN  (IF includes(questionLower, tableLower) THEN 20 ELSE 0)
        + 10 * count({k \in DOMAIN tableNameParts :
                         includes(questionLower, tableNameParts[k])
                             /\ Len(tableNameParts[k]) > 3})
        + 8 * count({i \in DOMAIN columnNames : includes(questionLower, columnNames[i])})
        + 5 * count({i \in DOMAIN columnNames :
                        includes(columnNames[i], kwName) /\ includes(questionLower, kwName)})
        + 5 * count({i \in DOMAIN columnNames :
                        /\ includes(columnNames[i], kwCount)
                        /\ (includes(questionLower, kwHowMany)
                            \/ includes(questionLower, kwCount))})

\* the top tables of the scoring system (lines 379-427): the available
\* tables that have a schema and a positive score, sorted by descending score
\* (Array.prototype.sort is stable), the first three of them
scoredMatches(questionLower, availableTables, tableSchemas) ==
    LET scoreAt(i) ==
            IF hasSchema(tableSchemas, availableTables[i])
            THEN tableScore(questionLower, availableTables[i],
                            schemaOf(tableSchemas, availableTables[i]))
            ELSE 0
        scored == {i \in DOMAIN availableTables : scoreAt(i) > 0}
        rank(i) == Cardinality({j \in scored :
                       scoreAt(j) > scoreAt(i) \/ (scoreAt(j) = scoreAt(i) /\ j < i)})
        top == [k \in 1..Min(3, Cardinality(scored)) |->
                   availableTables[CHOOSE i \in scored : rank(i) = k - 1]]
    IN  addAll(<<>>, top)

\* the result keeps every selected table
truncate_keepAll(selected) == selected

\* Array.from(selectedTables).slice(0, 3) (line 443)
truncate(selected) == SubSeq(selected, 1, Min(3, Len(selected)))

\* selectTables (lines 335-446)
selectTables(question, availableTables, tableSchemas) ==
    LET questionLower == toLowerCase(question)
        direct == directMatches(questionLower, availableTables, Len(keywordTableMap))
        matched == IF direct = <<>>
                   THEN scoredMatches(questionLower, availableTables, tableSchemas)
                   ELSE direct
        withProjects ==
            IF (includes(questionLower, kwProject) \/ includes(questionLower, kwHowMany))
               /\ inList(availableTables, tblProjects)
            THEN setAdd(matched, tblProjects)
            ELSE matched
        selectedTables ==
            IF withProjects = <<>> /\ Len(availableTables) > 0
            THEN <<availableTables[1]>>
            ELSE withProjects
    IN  truncate(selectedTables)

-----------------------------------------------------------------------------
(* Steps 1 and 2 of processQuestion, and selectTables called alone.        *)

\* the schema catalog this.tableSchemas: empty while loadTableSchemas has not
\* finished or after it failed, else the tables of the database in the order
\* they were loaded, each with its column names (the columns the prompt of
\* generateSqlQuery and the header of projectSummaryAgent.js name)
EmptyCatalog == <<>>

LoadedCatalog ==
    << [name |-> <<"c","o","m","p","a","n","y">>, columns |-> << <<"c","o","m","p","a","n","y","I","d">>, <<"c","o","m","p","a","n","y","N","a","m","e">> >>],
       [name |-> <<"c","o","n","s","o","l","i","d","a","t","e","d","_","s","u","m","m","a","r","y">>, columns |-> << <<"i","d">>, <<"s","u","m","m","a","r","y">> >>],
       [name |-> <<"c","o","n","t","a","c","t","s">>,
        columns |-> << <<"c","o","n","t","a","c","t","I","d">>, <<"f","i","r","s","t","N","a","m","e">>, <<"l","a","s","t","N","a","m","e">> >>],
       [name |-> <<"m","a","s","t","e","r","_","p","r","o","j","e","c","t","_","a","i","_","s","u","m","m","a","r","y">>,
        columns |-> << <<"i","d">>, <<"c","o","m","p","a","n","y","I","d">>, <<"p","r","o","j","e","c","t","I","d">>, <<"p","r","o","j","e","c","t","C","o","d","e">>,
                       <<"s","u","m","m","a","r","y">>, <<"s","t","a","t","u","s">> >>],
       [name |-> <<"p","l","a","t","f","o","r","m","u","s","e","r","s">>, columns |-> << <<"u","s","e","r","I","d">> >>],
       [name |-> <<"p","r","o","j","e","c","t","s">>, columns |-> << <<"p","r","o","j","e","c","t","I","d">>, <<"p","r","o","j","e","c","t","N","a","m","e">> >>],
       [name |-> <<"t","e","a","m","m","e","m","b","e","r","s">>, columns |-> << <<"t","e","a","m","M","e","m","b","e","r","I","d">> >>],
       [name |-> <<"t","r","d","3","6","5","_","a","c","c","o","u","n","t","s">>, columns |-> << <<"a","c","c","o","u","n","t","N","a","m","e">> >> ] >>

Catalogs == {EmptyCatalog, LoadedCatalog}

QuestionCompanies == <<"H","o","w"," ","m","a","n","y"," ","c","o","m","p","a","n","i","e","s"," ","d","o"," ","w","e"," ","h","a","v","e","?">>
QuestionSummaries == <<"H","o","w"," ","m","a","n","y"," ","c","o","m","p","a","n","i","e","s"," ","h","a","v","e"," ","s","u","m","m","a","r","i","e","s","?">>
QuestionUsers == <<"L","i","s","t"," ","u","s","e","r","s">>
QuestionCases == <<"S","h","o","w"," ","a","l","l"," ","c","a","s","e","s">>
QuestionConfig == <<"S","h","o","w"," ","t","h","e"," ","c","o","m","p","a","n","y"," ","c","o","n","f","i","g">>
QuestionTeams == <<"H","o","w"," ","m","a","n","y"," ","u","s","e","r","s"," ","a","r","e"," ","o","n"," ","e","a","c","h"," ","t","e","a","m","?">>
QuestionNames == <<"H","o","w"," ","m","a","n","y"," ","n","a","m","e","s"," ","a","r","e"," ","t","h","e","r","e","?">>
QuestionFirstName == <<"L","i","s","t"," ","e","v","e","r","y"," ","f","i","r","s","t","N","a","m","e">>
QuestionWeather == <<"W","h","a","t"," ","i","s"," ","t","h","e"," ","w","e","a","t","h","e","r","?">>
QuestionBudget == <<"P","r","o","j","e","c","t"," ","b","u","d","g","e","t">>

SelectQuestions ==
    {QuestionCompanies, QuestionSummaries, QuestionUsers, QuestionCases,
     QuestionConfig, QuestionTeams, QuestionNames, QuestionFirstName,
     QuestionWeather, QuestionBudget}

\* what the model answers to the classification prompt
CategoryReplies ==
    { <<"C","o","m","p","a","n","y"," ","/"," ","O","r","g","a","n","i","z","a","t","i","o","n">>,
      <<" ","P","r","o","j","e","c","t","s","\n">>,
      <<"U","s","e","r","s"," ","/"," ","T","e","a","m","s">>,
      <<"I"," ","a","m"," ","n","o","t"," ","s","u","r","e",".">>,
      <<"c","o","n","s","t","r","u","c","t","o","r">>,
      <<>> }

CategoryLlmOutcomes ==
    {LlmReply(t) : t \in CategoryReplies} \cup {LlmFailure(s) : s \in LlmStatuses}

\* the lists selectTables is called with alone: the table list of every
\* category, the keys of the catalogs, and lists that put "projects" last
AvailableLists ==
    {getCategoryMapping[i].tables : i \in DOMAIN getCategoryMapping}
        \cup {schemaKeys(c) : c \in Catalogs}
        \cup { << <<"c","o","n","t","a","c","t","s">>, <<"p","l","a","t","f","o","r","m","u","s","e","r","s">>, <<"t","e","a","m","m","e","m","b","e","r","s">>, <<"p","r","o","j","e","c","t","s">> >>,
               << <<"t","e","a","m","m","e","m","b","e","r","s">>, <<"p","r","o","j","e","c","t","s">> >>,
               << <<"l","o","g","i","n","h","i","s","t","o","r","y">> >> }

VARIABLES selectInput, selectResult

selectVars == <<selectInput, selectResult>>

NoSelectInput ==
    [question |-> <<>>, llm |-> LlmFailure(0), tableSchemas |-> EmptyCatalog,
     availableTables |-> <<>>]

NoSelectResult ==
    [step |-> "idle", category |-> <<>>, tables |-> None, llmCalls |-> 0,
     selectedTables |-> None, raised |-> FALSE, alone |-> None]

SelectIdle == selectInput = NoSelectInput /\ selectResult = NoSelectResult

\* a question enters processQuestion, or selectTables is called alone on a
\* list of AvailableLists
SelectInit ==
    \/ /\ selectInput \in [question : SelectQuestions, llm : CategoryLlmOutcomes,
                            tableSchemas : Catalogs, availableTables : {<<>>}]
       /\ selectResult = [NoSelectResult EXCEPT !.step = "asked"]
    \/ /\ selectInput \in [question : SelectQuestions, llm : {LlmFailure(0)},
                            tableSchemas : Catalogs, availableTables : AvailableLists]
       /\ selectResult = [NoSelectResult EXCEPT !.step = "alone"]

\* step 1 of processQuestion (line 748): selectCategory
SelectCategoryStep ==
    /\ selectResult.step = "asked"
    /\ LET categoryResult == selectCategory(selectInput.question, selectInput.llm,
                                            selectInput.tableSchemas)
       IN  selectResult' = [selectResult EXCEPT !.step = "classified",
                                                !.category = categoryResult.category,
                                                !.tables = categoryResult.tables,
                                                !.llmCalls = categoryResult.llmCalls]
    /\ UNCHANGED selectInput

\* step 2 of processQuestion (line 752): selectTables on the tables of the
\* category. With tables undefined, availableTables.includes (line 372) or
\* the iteration of availableTables (line 382) raises a TypeError, which
\* processQuestion catches.
SelectTablesStep ==
    /\ selectResult.step = "classified"
    /\ selectResult' =
          IF selectResult.tables = None
          THEN [selectResult EXCEPT !.step = "selected", !.raised = TRUE]
          ELSE [selectResult EXCEPT
                   !.step = "selected",
                   !.selectedTables = Some(selectTables(selectInput.question,
                                                        selectResult.tables[1],
                                                        selectInput.tableSchemas))]
    /\ UNCHANGED selectInput

\* selectTables called on a list of its own
SelectTablesAlone ==
    /\ selectResult.step = "alone"
    /\ selectResult' =
          [selectResult EXCEPT !.step = "returned",
                               !.alone = Some(selectTables(selectInput.question,
                                                           selectInput.availableTables,
                                                           selectInput.tableSchemas))]
    /\ UNCHANGED selectInput

-----------------------------------------------------------------------------
(* ProjectSummaryAgent.executeQuery (projectSummaryAgent.js, lines 96-136). *)

\* the default of the parameter maxRetries (line 96)
summaryMaxRetries == 3

\* line 108: the error codes the summary agent retries on
summaryIsConnectionError(code) ==
    code \in {"ECONNRESET", "PROTOCOL_CONNECTION_LOST", "ENOTFOUND"}

\* the loop goes on after a failure of any code
summaryBreaks_never(code) == FALSE

\* lines 125-128: any other error leaves the loop
summaryBreaks(code) == ~summaryIsConnectionError(code)

\* line 111: a backoff and a new pool follow the failed attempt
summaryShouldRetry(attempt) == attempt < summaryMaxRetries

\* a delay that does not grow
summaryBackoffDelay_constant(attempt) == 1000

\* line 113: 1000 * Math.pow(2, attempt - 1)
summaryBackoffDelay(attempt) == 1000 * (2 ^ (attempt - 1))

\* line 99: the condition of the for loop
summaryLoopContinues(attempt) == attempt <= summaryMaxRetries

VARIABLES summaryCall, summaryPool

summaryVars == <<summaryCall, summaryPool>>

NoSummaryCall ==
    [pc |-> "idle", attempt |-> 0, attempts |-> 0, codes |-> <<>>, delays |-> <<>>,
     recreated |-> 0, lastError |-> None, outcome |-> "none",
     rows |-> [length |-> 0, data |-> "-"], code |-> ""]

SummaryInit == summaryCall = NoSummaryCall /\ summaryPool = 0

\* executeQuery is called (lines 96-106): attempt 1 is issued
SummaryExecuteQuery ==
    /\ summaryCall.pc = "idle"
    /\ started' = started + 1
    /\ summaryCall' = [NoSummaryCall EXCEPT !.pc = "execute", !.attempt = 1,
                                             !.attempts = 1, !.outcome = "pending"]
    /\ UNCHANGED <<summaryPool, pc, req, gen, guarded, call, result, resp, queryCache,
                   queryHistory, metrics, connectionPool, now>>

\* the end of one round of the for loop (lines 99, 131, 135): the next attempt
\* is issued, or the loop is over and lastError is thrown
summaryNextRound(c) ==
    IF summaryLoopContinues(c.attempt + 1)
    THEN [c EXCEPT !.pc = "execute", !.attempt = @ + 1, !.attempts = @ + 1]
    ELSE [c EXCEPT !.pc = "done", !.outcome = "thrown", !.code = c.lastError[1]]

\* connectionPool.execute settles (lines 105-129): rows are returned; a
\* connection error with attempts left starts the backoff; a connection error
\* on the last attempt ends the loop; any other error breaks out of it
SummaryPoolReturn(outcome) ==
    /\ summaryCall.pc = "execute"
    /\ LET failed == [summaryCall EXCEPT !.lastError = Some(outcome.code),
                                         !.codes = Append(@, outcome.code)]
       IN  summaryCall' =
              IF outcome.ok
              THEN [summaryCall EXCEPT !.pc = "done", !.outcome = "returned",
                                       !.rows = outcome.rows]
              ELSE IF summaryBreaks(outcome.code)
              THEN [failed EXCEPT !.pc = "done", !.outcome = "thrown",
                                  !.code = outcome.code]
              ELSE IF summaryShouldRetry(summaryCall.attempt)
              THEN [failed EXCEPT !.pc = "backoff",
                                  !.delays = Append(@, summaryBackoffDelay(summaryCall.attempt))]
              ELSE summaryNextRound(failed)
    /\ UNCHANGED <<summaryPool, agentVars>>

\* the sleep is over (lines 115-122): the pool is ended, whatever end() does,
\* and initializeDatabase, which throws nothing, creates a new one; then the
\* loop goes round
SummaryBackoffDone ==
    /\ summaryCall.pc = "backoff"
    /\ summaryPool' = summaryPool + 1
    /\ summaryCall' = summaryNextRound([summaryCall EXCEPT !.recreated = @ + 1])
    /\ UNCHANGED agentVars

\* the caller has the rows or the error
SummaryFinish ==
    /\ summaryCall.pc = "done"
    /\ summaryCall' = NoSummaryCall
    /\ UNCHANGED <<summaryPool, agentVars>>

-----------------------------------------------------------------------------
(* The Python agent bridge (controllers/python-agent-bridge.controller.js): *)
(* callPythonAgent and hybridChatWithPythonAgents.                         *)

\* the requests SpecBridge starts
MaxChatRequests == 1

\* what the subprocess has written to stdout when it closes: nothing, the
\* JSON of a result with success true, of one with success false, the JSON
\* null, or text that JSON.parse rejects
PythonOutputs == {"", "json-success", "json-failure", "json-null", "garbage"}

\* the exit codes of the close event; "null" is that of a killed process
PythonExitCodes == {"0", "1", "null"}

\* JSON.parse(output) (line 63) throws
parseFails(output) == output = "garbage"

\* resolve and reject that overwrite a promise already settled
settle_overwriting(py, state, reason, value) ==
    [py EXCEPT !.promise = state, !.reason = reason, !.value = value,
               !.settles = @ + 1]

\* resolve and reject (lines 64-78) settle a pending promise and leave a
\* settled one as it is; settles counts their calls
settle(py, state, reason, value) ==
    IF py.promise = "pending"
    THEN [py EXCEPT !.promise = state, !.reason = reason, !.value = value,
                    !.settles = @ + 1]
    ELSE [py EXCEPT !.settles = @ + 1]

\* the listener of close (lines 56-71)
onClose(py, code, output) ==
    IF code = "0" /\ output # ""
    THEN IF parseFails(output)
         THEN settle(py, "rejected", "parse", "")
         ELSE settle(py, "resolved", "", output)
    ELSE settle(py, "rejected", "exit", "")

\* the listener of error (lines 73-76)
onError(py) == settle(py, "rejected", "error", "")

\* the callback of the timer (lines 79-82): kill(), which emits error when
\* the signal cannot be sent to a process that still runs, then reject
onTimeout(py, killFails) ==
    LET running == ~py.closed
        killed  == [py EXCEPT !.timerFired = TRUE,
                              !.killCalled = TRUE,
                              !.killed = running /\ ~killFails,
                              !.errored = @ \/ (running /\ killFails)]
        afterKill == IF running /\ killFails THEN onError(killed) ELSE killed
    IN  settle(afterKill, "rejected", "timeout", "")

\* every resolved call counts as a success
pythonSucceeded_resolved(py) == py.promise = "resolved"

\* pythonResult && pythonResult.success (line 103)
pythonSucceeded(py) == py.promise = "resolved" /\ py.value = "json-success"

VARIABLES python, chat

bridgeVars == <<python, chat>>

NoPython ==
    [promise |-> "none", reason |-> "", value |-> "", settles |-> 0,
     spawned |-> FALSE, closed |-> FALSE, code |-> "", output |-> "",
     errored |-> FALSE, killCalled |-> FALSE, killed |-> FALSE, timerFired |-> FALSE,
     closedBeforeTimeout |-> FALSE, erroredBeforeTimeout |-> FALSE]

NoChat ==
    [pc |-> "idle", hasMessage |-> FALSE, invoked |-> <<>>, responses |-> 0,
     status |-> 0, agent |-> "", dbOk |-> FALSE, llmOk |-> FALSE]

BridgeInit == python = NoPython /\ chat = NoChat

\* callPythonAgent (lines 30-82) up to the return of the promise. With data
\* undefined JSON.stringify(data).substring (line 34) throws in the executor:
\* the promise is rejected, no process is spawned and no timer set.
callPythonAgent(hasData) ==
    IF hasData
    THEN [NoPython EXCEPT !.promise = "pending", !.spawned = TRUE]
    ELSE [NoPython EXCEPT !.promise = "rejected", !.reason = "typeerror",
                          !.settles = 1]

\* hybridChatWithPythonAgents is called (lines 85-101): the Python agent is
\* tried first
ChatRequest(hasMessage) ==
    /\ chat.pc = "idle"
    /\ python = NoPython
    /\ started' = started + 1
    /\ chat' = [NoChat EXCEPT !.pc = "python", !.hasMessage = hasMessage,
                              !.invoked = <<"python">>]
    /\ python' = callPythonAgent(hasMessage)

\* the subprocess closes (lines 56-71); a killed process closes with no code
PythonClose(code, output) ==
    /\ python.spawned
    /\ ~python.closed
    /\ (code = "null") = python.killed
    /\ python' = [onClose(python, code, output) EXCEPT
                     !.closed = TRUE, !.code = code, !.output = output,
                     !.closedBeforeTimeout = ~python.timerFired]
    /\ UNCHANGED <<chat, started>>

\* the subprocess could not be spawned (lines 73-76); close may follow
PythonError ==
    /\ python.spawned
    /\ ~python.closed
    /\ ~python.errored
    /\ ~python.timerFired
    /\ python' = [onError(python) EXCEPT !.errored = TRUE,
                                         !.erroredBeforeTimeout = TRUE]
    /\ UNCHANGED <<chat, started>>

\* 60 seconds after the call the timer fires (lines 79-82); it is never
\* cleared
PythonTimeout(killFails) ==
    /\ python.spawned
    /\ ~python.timerFired
    /\ python' = onTimeout(python, killFails)
    /\ UNCHANGED <<chat, started>>

\* res.status(200).json with the agent that answered
respond(c, agent) ==
    [c EXCEPT !.pc = "done", !.responses = @ + 1, !.status = 200, !.agent = agent]

\* the await of callPythonAgent is over (lines 101-131): the answer of the
\* Python agent is sent, or the database is asked for sample projects
ChatPythonSettled ==
    /\ chat.pc = "python"
    /\ python.promise \in {"resolved", "rejected"}
    /\ chat' = IF pythonSucceeded(python)
               THEN respond(chat, "python")
               ELSE [chat EXCEPT !.pc = "db", !.invoked = Append(@, "db")]
    /\ UNCHANGED <<python, started>>

\* db.query calls back (lines 120-155): with the projects the model is
\* called; an error (or config/database that cannot be loaded) goes to the
\* basic fallback
ChatDbReturn(ok) ==
    /\ chat.pc = "db"
    /\ chat' = IF ok
               THEN [chat EXCEPT !.pc = "llm", !.dbOk = TRUE, !.invoked = Append(@, "llm")]
               ELSE respond(chat, "nodejs_basic")
    /\ UNCHANGED <<python, started>>

\* generateContent settles (lines 155-186); ok is that it and response.text()
\* gave a text
ChatLlmReturn(ok) ==
    /\ chat.pc = "llm"
    /\ chat' = IF ok
               THEN respond([chat EXCEPT !.llmOk = TRUE], "nodejs_enhanced")
               ELSE respond(chat, "nodejs_basic")
    /\ UNCHANGED <<python, started>>

\* the response is out and the timer of the call, if one was set, has fired
ChatFinish ==
    /\ chat.pc = "done"
    /\ python.spawned => python.timerFired /\ python.closed
    /\ chat' = NoChat
    /\ python' = NoPython
    /\ UNCHANGED started

-----------------------------------------------------------------------------
(* The connection pool of AdvancedSqlAgent at the grain of the awaits of    *)
(* executeQuery and initializeDatabase (advancedSqlAgent.js, lines 70-138): *)
(* pools are numbered in the order of their creation.                       *)

\* the calls of executeQuery and the error events of a pool in SpecPool
MaxPoolCalls == 2
MaxPoolErrors == 1

\* what connectionPool.execute does on a pool that is open
PoolOutcomes == {"rows", "connection-error", "other-error"}

VARIABLES pools, poolCall

poolVars == <<pools, poolCall>>

NoPoolCall == [pc |-> "idle", retryCount |-> 0, pool |-> 0, onEnded |-> FALSE]

\* the constructor has called initializeDatabase (lines 61-63): pool 1
PoolInit ==
    /\ pools = [current |-> 1, created |-> 1, ended |-> {}, calls |-> 0, errors |-> 0]
    /\ poolCall = [p \in Slots |-> NoPoolCall]

\* mysql.createPool and the assignment of line 115
createPool(ps) == [ps EXCEPT !.created = @ + 1, !.current = ps.created + 1]

\* this.connectionPool.end() is called (line 95)
endPool(ps) == [ps EXCEPT !.ended = @ \cup {ps.current}]

\* this.connectionPool.execute is called (line 76) on the pool of the moment
dispatch(c, ps) ==
    [c EXCEPT !.pc = "execute", !.pool = ps.current,
              !.onEnded = ps.current \in ps.ended]

\* executeQuery is called (lines 70-76)
PoolExecuteQuery(p) ==
    /\ poolCall[p].pc = "idle"
    /\ pools.calls < MaxPoolCalls
    /\ pools' = [pools EXCEPT !.calls = @ + 1]
    /\ poolCall' = [poolCall EXCEPT ![p] = dispatch(NoPoolCall, pools)]

\* connectionPool.execute settles (lines 76-105); a pool that was closed
\* when it was asked rejects with an error that has no code
PoolExecuteReturn(p, outcome) ==
    /\ poolCall[p].pc = "execute"
    /\ poolCall[p].onEnded => outcome = "other-error"
    /\ poolCall' = [poolCall EXCEPT ![p] =
          IF outcome = "connection-error" /\ poolCall[p].retryCount < maxRetries - 1
          THEN [@ EXCEPT !.pc = "backoff", !.retryCount = @ + 1]
          ELSE NoPoolCall]
    /\ UNCHANGED pools

\* the backoff is over (lines 89-101): on the second retry end() is called on
\* the pool, otherwise the next attempt is issued
PoolBackoffDone(p) ==
    /\ poolCall[p].pc = "backoff"
    /\ IF recreatesPool(poolCall[p].retryCount)
       THEN /\ pools' = endPool(pools)
            /\ poolCall' = [poolCall EXCEPT ![p].pc = "ending"]
       ELSE /\ poolCall' = [poolCall EXCEPT ![p] = dispatch(@, pools)]
            /\ UNCHANGED pools

\* end() settles (lines 95-101, 115-129): fulfilled, initializeDatabase creates
\* a pool and waits for its ping; rejected, the error is logged and the next
\* attempt is issued
PoolEndReturn(p, ok) ==
    /\ poolCall[p].pc = "ending"
    /\ IF ok
       THEN /\ pools' = createPool(pools)
            /\ poolCall' = [poolCall EXCEPT ![p].pc = "pinging"]
       ELSE /\ poolCall' = [poolCall EXCEPT ![p] = dispatch(@, pools)]
            /\ UNCHANGED pools

\* the ping of initializeDatabase settles (lines 129-137, 96-101): whatever it
\* gave, the next attempt is issued
PoolPingReturn(p) ==
    /\ poolCall[p].pc = "pinging"
    /\ poolCall' = [poolCall EXCEPT ![p] = dispatch(@, pools)]
    /\ UNCHANGED pools

\* the pool emitted 'error' with PROTOCOL_CONNECTION_LOST or ECONNRESET and
\* the timer of its handler fires (lines 118-124): initializeDatabase creates
\* a pool
PoolErrorReinitialize ==
    /\ pools.errors < MaxPoolErrors
    /\ pools' = [createPool(pools) EXCEPT !.errors = @ + 1]
    /\ UNCHANGED poolCall

-----------------------------------------------------------------------------
(* getSqlAgentInstance (sql-agent.routes.js, lines 15-24): agents are       *)
(* numbered in the order of their construction, 0 is null.                  *)

\* the requests SpecInstance starts
MaxInstanceRequests == 4

VARIABLES sqlAgentInstance, agentsConstructed, instanceCall

instanceVars == <<sqlAgentInstance, agentsConstructed, instanceCall>>

\* routes that call getSqlAgentInstance (lines 33, 96, 171)
InstanceRoutes == {"health", "query", "direct-sql"}

NoInstanceCall == [pc |-> "idle", route |-> "none", first |-> FALSE, sqlAgent |-> 0]

InstanceInit ==
    /\ sqlAgentInstance = 0
    /\ agentsConstructed = 0
    /\ instanceCall = [p \in Slots |-> NoInstanceCall]

\* an agent is constructed and the variable is left as it was
GetSqlAgentInstance_notAssigned(p, route) ==
    /\ instanceCall[p].pc = "idle"
    /\ started' = started + 1
    /\ IF sqlAgentInstance = 0
       THEN /\ agentsConstructed' = agentsConstructed + 1
            /\ UNCHANGED sqlAgentInstance
            /\ instanceCall' = [instanceCall EXCEPT ![p] =
                                  [pc |-> "waiting", route |-> route, first |-> TRUE,
                                   sqlAgent |-> 0]]
       ELSE /\ instanceCall' = [instanceCall EXCEPT ![p] =
                                  [pc |-> "returned", route |-> route, first |-> FALSE,
                                   sqlAgent |-> sqlAgentInstance]]
            /\ UNCHANGED <<sqlAgentInstance, agentsConstructed>>

\* a route calls getSqlAgentInstance (lines 17-23): with no instance yet one
\* is constructed and assigned, and the call waits 2 s; otherwise the
\* instance is returned
GetSqlAgentInstance(p, route) ==
    /\ instanceCall[p].pc = "idle"
    /\ started' = started + 1
    /\ IF sqlAgentInstance = 0
       THEN /\ agentsConstructed' = agentsConstructed + 1
            /\ sqlAgentInstance' = agentsConstructed + 1
            /\ instanceCall' = [instanceCall EXCEPT ![p] =
                                  [pc |-> "waiting", route |-> route, first |-> TRUE,
                                   sqlAgent |-> 0]]
       ELSE /\ instanceCall' = [instanceCall EXCEPT ![p] =
                                  [pc |-> "returned", route |-> route, first |-> FALSE,
                                   sqlAgent |-> sqlAgentInstance]]
            /\ UNCHANGED <<sqlAgentInstance, agentsConstructed>>

\* the 2 s are over (lines 21-23): the instance of the moment is returned
InstanceWaitDone(p) ==
    /\ instanceCall[p].pc = "waiting"
    /\ instanceCall' = [instanceCall EXCEPT ![p].pc = "returned",
                                            ![p].sqlAgent = sqlAgentInstance]
    /\ UNCHANGED <<sqlAgentInstance, agentsConstructed, started>>

\* the await of the route is over (lines 33, 96, 171): the request is served
\* by the agent it was given
InstanceServe(p) ==
    /\ instanceCall[p].pc = "returned"
    /\ instanceCall' = [instanceCall EXCEPT ![p].pc = "served"]
    /\ UNCHANGED <<sqlAgentInstance, agentsConstructed, started>>

\* the response is out
InstanceFinish(p) ==
    /\ instanceCall[p].pc = "served"
    /\ instanceCall' = [instanceCall EXCEPT ![p] = NoInstanceCall]
    /\ UNCHANGED <<sqlAgentInstance, agentsConstructed, started>>

-----------------------------------------------------------------------------
(* The rate limit of POST /query (sql-agent.routes.js, lines 86-94 and      *)
(* 421-454).                                                                *)

\* line 422
RATE_LIMIT_WINDOW == 60000

\* line 423: 10 in the source
RATE_LIMIT_MAX_REQUESTS == 2

\* line 441: the size of rateLimitMap above which it is cleaned, 1000 in the
\* source
RateLimitMapLimit == 1

\* the requests SpecLimit starts and the times its clock advances
MaxLimitRequests == 4
MaxWindowTicks == 3

\* the clock of SpecLimit advances by half a window
WindowTickMs == RATE_LIMIT_WINDOW \div 2

\* req.ip of the clients
ClientIPs == {"10.0.0.1", "10.0.0.2"}

\* line 430: the timestamps inside the window that ends at now
validRequests(userRequests, at) ==
    SelectSeq(userRequests, LAMBDA timestamp : at - timestamp < RATE_LIMIT_WINDOW)

\* the limit is reached one request later
limitReached_oneMore(userRequests, at) ==
    Len(validRequests(userRequests, at)) > RATE_LIMIT_MAX_REQUESTS

\* lines 426-434: isRateLimited returns true
limitReached(userRequests, at) ==
    Len(validRequests(userRequests, at)) >= RATE_LIMIT_MAX_REQUESTS

\* rateLimitMap.size: the map holds an entry for every address admitted since
\* its entry was last deleted, and no entry is ever empty
mapSize(map) == Cardinality({ip \in DOMAIN map : map[ip] # <<>>})

\* lines 441-451: the entries are filtered and the empty ones deleted
cleanUp(map, at) ==
    LET cutoff == at - RATE_LIMIT_WINDOW
    IN  [ip \in DOMAIN map |-> SelectSeq(map[ip], LAMBDA timestamp : timestamp > cutoff)]

\* lines 436-453: rateLimitMap after isRateLimited returned false
admit(map, ip, at) ==
    LET added == [map EXCEPT ![ip] = Append(validRequests(@, at), at)]
    IN  IF mapSize(added) > RateLimitMapLimit THEN cleanUp(added, at) ELSE added

VARIABLES
    rateLimitMap,   \* per address: the timestamps kept (none: no entry)
    limiterLog      \* the decisions of isRateLimited so far

limiterVars == <<rateLimitMap, limiterLog>>

NoDecision == [ip |-> "", slot |-> 0, limited |-> FALSE, at |-> 0]

LimiterInit ==
    /\ rateLimitMap = [ip \in ClientIPs |-> <<>>]
    /\ limiterLog = [n |-> 0, admissions |-> [ip \in ClientIPs |-> <<>>],
                     last |-> NoDecision]

\* lines 89-93: the response of a request that is over the limit
tooManyRequestsResponse == plainResponse(429, "Too many requests", "")

\* POST /query (lines 72-97) with its rate limit check: a request without
\* question is answered 400 before the check; a request over the limit is
\* answered 429; any other is recorded and handed to the agent. Nothing in
\* the sources sets req.rateLimitBypass.
RateLimitedQueryRequest(p, question, useCache, userIP) ==
    IF question = ""
    THEN QueryRequest(p, question, useCache) /\ UNCHANGED limiterVars
    ELSE LET limited == limitReached(rateLimitMap[userIP], now)
             decision == [ip |-> userIP, slot |-> p, limited |-> limited, at |-> now]
         IN  /\ limiterLog' =
                   [limiterLog EXCEPT
                      !.n = @ + 1,
                      !.last = decision,
                      !.admissions[userIP] = IF limited THEN @ ELSE Append(@, now)]
             /\ IF limited
                THEN /\ pc[p] = "idle"
                     /\ started' = started + 1
                     /\ req' = [req EXCEPT ![p] =
                                  [route |-> "query", question |-> question,
                                   statement |-> <<>>, useCache |-> useCache]]
                     /\ resp' = [resp EXCEPT ![p] = tooManyRequestsResponse]
                     /\ pc' = [pc EXCEPT ![p] = "done"]
                     /\ UNCHANGED <<rateLimitMap, gen, guarded, call, result, queryCache,
                                    queryHistory, metrics, connectionPool, now>>
                ELSE /\ rateLimitMap' = admit(rateLimitMap, userIP, now)
                     /\ QueryRequest(p, question, useCache)

\* half a window passes
WindowTick ==
    /\ now < MaxWindowTicks * WindowTickMs
    /\ now' = now + WindowTickMs
    /\ UNCHANGED <<limiterVars, pc, req, gen, guarded, call, result, resp, queryCache,
                   queryHistory, metrics, connectionPool, started>>
-----------------------------------------------------------------------------
(* Specifications.                                                          *)

\* the variables of the components beside the SQL agent
sideVars == <<bridgeVars, poolVars, instanceVars, limiterVars>>

vars == <<python, chat, pools, poolCall, sqlAgentInstance, agentsConstructed,
          instanceCall, rateLimitMap, limiterLog, guardInput, guardResult, selectInput, selectResult, summaryCall,
          summaryPool, pc, req, gen, guarded,
          call, result, resp, queryCache, queryHistory, metrics, connectionPool, now,
          started>>

\* the variables of the guard and of the selection called alone, and those of
\* the components beside the SQL agent
aloneVars == <<guardVars, selectVars, sideVars>>

SideIdle == BridgeInit /\ PoolInit /\ InstanceInit /\ LimiterInit

Init == AgentInit /\ GuardIdle /\ SelectIdle /\ SummaryInit /\ SideIdle

\* the requests of POST /query and POST /direct-sql, concurrent in NumSlots
\* slots
Next ==
    /\ UNCHANGED <<aloneVars, summaryVars>>
    /\ \/ /\ started < MaxRequests
          /\ \E p \in Slots, q \in Questions, u \in BOOLEAN : QueryRequest(p, q, u)
       \/ \E p \in Slots, l \in LlmOutcomes : GenerateReturn(p, l)
       \/ /\ started < MaxRequests
          /\ \E p \in Slots, s \in DirectStatements, u \in BOOLEAN, a \in BOOLEAN :
                DirectSqlRequest(p, s, u, a)
       \/ \E p \in Slots, o \in DbOutcomes(RowSets, AgentErrorCodes) : PoolReturn(p, o)
       \/ \E p \in Slots : Finish(p)
       \/ ClearCache
       \/ Tick

Spec == Init /\ [][Next]_vars

\* the cache and the history under more requests: POST /direct-sql by an
\* administrator, on the statements of CacheStatements
NextCache ==
    /\ UNCHANGED <<aloneVars, summaryVars>>
    /\ \/ /\ started < MaxCacheRequests
          /\ \E p \in Slots, s \in CacheStatements, u \in BOOLEAN :
                DirectSqlRequest(p, s, u, TRUE)
       \/ \E p \in Slots, o \in DbOutcomes(CacheRowSets, AgentErrorCodes) : PoolReturn(p, o)
       \/ \E p \in Slots : Finish(p)
       \/ ClearCache
       \/ Tick

SpecCache == Init /\ [][NextCache]_vars

\* executeQuery alone, on every error code: that of AdvancedSqlAgent called
\* by the health check, and that of ProjectSummaryAgent
NextRetry ==
    /\ UNCHANGED aloneVars
    /\ \/ /\ UNCHANGED summaryVars
          /\ \/ /\ started < MaxRetryRequests
                /\ \E p \in Slots : HealthRequest(p)
             \/ \E p \in Slots, o \in DbOutcomes(RowSets, ErrorCodes) : PoolReturn(p, o)
             \/ \E p \in Slots, r \in BOOLEAN : BackoffDone(p, r)
             \/ \E p \in Slots : Finish(p)
       \/ /\ started < MaxRetryRequests
          /\ SummaryExecuteQuery
       \/ \E o \in DbOutcomes(RowSets, ErrorCodes) : SummaryPoolReturn(o)
       \/ SummaryBackoffDone
       \/ SummaryFinish

SpecRetry == Init /\ [][NextRetry]_vars

\* POST /direct-sql by an administrator with a database that fails with
\* every error code, executeQuery retrying
NextFailure ==
    /\ UNCHANGED <<aloneVars, summaryVars>>
    /\ \/ /\ started < MaxFailureRequests
          /\ \E p \in Slots, s \in FailureStatements, u \in BOOLEAN :
                DirectSqlRequest(p, s, u, TRUE)
       \/ \E p \in Slots, o \in DbOutcomes(CacheRowSets, FailureErrorCodes) : PoolReturn(p, o)
       \/ \E p \in Slots, r \in BOOLEAN : BackoffDone(p, r)
       \/ \E p \in Slots : Finish(p)

SpecFailure == Init /\ [][NextFailure]_vars

\* POST /direct-sql by an administrator, with and without the cache, on
\* results of every size, while time passes
NextStore ==
    /\ UNCHANGED <<aloneVars, summaryVars>>
    /\ \/ /\ started < MaxStoreRequests
          /\ \E p \in Slots, s \in StoreStatements, u \in BOOLEAN :
                DirectSqlRequest(p, s, u, TRUE)
       \/ \E p \in Slots, o \in DbOutcomes(StoreRowSets, AgentErrorCodes) : PoolReturn(p, o)
       \/ \E p \in Slots : Finish(p)
       \/ ClearCache
       \/ Tick

SpecStore == Init /\ [][NextStore]_vars

\* the guard alone, on every input of GuardInputs
InitGuard == GuardInit /\ AgentInit /\ SelectIdle /\ SummaryInit /\ SideIdle

NextGuard == Validate /\ UNCHANGED <<agentVars, selectVars, summaryVars, sideVars>>

SpecGuard == InitGuard /\ [][NextGuard]_vars

\* selectCategory and selectTables, on every question of SelectQuestions
InitSelect == SelectInit /\ AgentInit /\ GuardIdle /\ SummaryInit /\ SideIdle

NextSelect ==
    /\ UNCHANGED <<agentVars, guardVars, summaryVars, sideVars>>
    /\ \/ SelectCategoryStep
       \/ SelectTablesStep
       \/ SelectTablesAlone

SpecSelect == InitSelect /\ [][NextSelect]_vars

\* one chat request of the bridge: the subprocess closes, fails and times
\* out in every order while the request goes through its fallbacks
NextBridge ==
    /\ UNCHANGED <<guardVars, selectVars, summaryVars, poolVars, instanceVars,
                   limiterVars, pc, req, gen, guarded,
                   call, result, resp, queryCache, queryHistory, metrics,
                   connectionPool, now>>
    /\ \/ /\ started < MaxChatRequests
          /\ \E m \in BOOLEAN : ChatRequest(m)
       \/ \E c \in PythonExitCodes, o \in PythonOutputs : PythonClose(c, o)
       \/ PythonError
       \/ \E k \in BOOLEAN : PythonTimeout(k)
       \/ ChatPythonSettled
       \/ \E ok \in BOOLEAN : ChatDbReturn(ok)
       \/ \E ok \in BOOLEAN : ChatLlmReturn(ok)
       \/ ChatFinish

SpecBridge == Init /\ [][NextBridge]_vars

\* the timer fires, the events are delivered and the awaited calls settle
FairSpecBridge == SpecBridge /\ WF_vars(NextBridge)

\* the requests SpecPolicy starts
MaxPolicyRequests == 2

\* a code both agents retry on, one only the SQL agent retries on, one only
\* the summary agent retries on, and one neither retries on
PolicyErrorCodes == {"ECONNRESET", "ETIMEDOUT", "ENOTFOUND", "ER_PARSE_ERROR"}

\* a health check of the SQL agent and a query of the summary agent, each on
\* a pool that fails in every way: the calls stay as they ended
NextPolicy ==
    /\ UNCHANGED aloneVars
    /\ \/ /\ UNCHANGED summaryVars
          /\ \/ /\ started < MaxPolicyRequests
                /\ \E p \in Slots : HealthRequest(p)
             \/ \E p \in Slots, o \in DbOutcomes({}, PolicyErrorCodes) : PoolReturn(p, o)
             \/ \E p \in Slots, r \in BOOLEAN : BackoffDone(p, r)
       \/ /\ started < MaxPolicyRequests
          /\ SummaryExecuteQuery
       \/ \E o \in DbOutcomes({}, PolicyErrorCodes) : SummaryPoolReturn(o)
       \/ SummaryBackoffDone

SpecPolicy == Init /\ [][NextPolicy]_vars

\* the requests SpecCollide starts
MaxCollideRequests == 2

\* two statements that differ after their 38th character only
CollidingStatements == {StatementById, StatementById2}

\* the rows of a database that holds one company for each id
databaseRows(query) ==
    IF query = StatementById THEN [length |-> 1, data |-> "a"]
    ELSE [length |-> 1, data |-> "b"]

\* direct statements that differ late in their text, against a database that
\* answers each with its own rows
NextCollide ==
    /\ UNCHANGED <<aloneVars, summaryVars>>
    /\ \/ /\ started < MaxCollideRequests
          /\ \E p \in Slots, s \in CollidingStatements, u \in BOOLEAN :
                DirectSqlRequest(p, s, u, TRUE)
       \/ \E p \in Slots : PoolReturn(p, DbRows(databaseRows(call[p].query)))
       \/ \E p \in Slots, c \in AgentErrorCodes : PoolReturn(p, DbError(c))
       \/ \E p \in Slots : Finish(p)
       \/ Tick

SpecCollide == Init /\ [][NextCollide]_vars

\* calls of executeQuery that run side by side while pools are ended and
\* created
NextPool ==
    /\ UNCHANGED <<guardVars, selectVars, summaryVars, bridgeVars, instanceVars,
                   limiterVars, agentVars>>
    /\ \/ \E p \in Slots : PoolExecuteQuery(p)
       \/ \E p \in Slots, o \in PoolOutcomes : PoolExecuteReturn(p, o)
       \/ \E p \in Slots : PoolBackoffDone(p)
       \/ \E p \in Slots, ok \in BOOLEAN : PoolEndReturn(p, ok)
       \/ \E p \in Slots : PoolPingReturn(p)
       \/ PoolErrorReinitialize

SpecPool == Init /\ [][NextPool]_vars

\* requests that reach the routes side by side before any agent exists
NextInstance ==
    /\ UNCHANGED <<guardVars, selectVars, summaryVars, bridgeVars, poolVars,
                   limiterVars, pc, req, gen, guarded, call, result, resp, queryCache, queryHistory, metrics,
                   connectionPool, now>>
    /\ \/ /\ started < MaxInstanceRequests
          /\ \E p \in Slots, r \in InstanceRoutes : GetSqlAgentInstance(p, r)
       \/ \E p \in Slots : InstanceWaitDone(p)
       \/ \E p \in Slots : InstanceServe(p)
       \/ \E p \in Slots : InstanceFinish(p)

SpecInstance == Init /\ [][NextInstance]_vars

\* the statuses of the failed calls of the model in SpecLimit
LimitLlmStatuses == {500}

\* questions of two clients while time passes; the model is out of service,
\* so that an admitted request ends at generateSqlQuery
NextLimit ==
    /\ UNCHANGED <<guardVars, selectVars, summaryVars, bridgeVars, poolVars, instanceVars>>
    /\ \/ /\ started < MaxLimitRequests
          /\ \E p \in Slots, q \in Questions, ip \in ClientIPs :
                RateLimitedQueryRequest(p, q, TRUE, ip)
       \/ /\ \E p \in Slots, s \in LimitLlmStatuses : GenerateReturn(p, LlmFailure(s))
          /\ UNCHANGED limiterVars
       \/ /\ \E p \in Slots : Finish(p)
          /\ UNCHANGED limiterVars
       \/ WindowTick

SpecLimit == Init /\ [][NextLimit]_vars

-----------------------------------------------------------------------------
(* Properties of the Query Guard (under SpecGuard).                         *)

BlocklistedKeywords ==
    { <<"D","R","O","P">>, <<"D","E","L","E","T","E">>, <<"T","R","U","N","C","A","T","E">>, <<"A","L","T","E","R">>, <<"C","R","E","A","T","E">>, <<"I","N","S","E","R","T">>, <<"U","P","D","A","T","E">> }

\* the upper-cased text contains a keyword of the blocklist
blocklisted(text) == \E w \in BlocklistedKeywords : includes(toUpperCase(text), w)

\* validateAndOptimizeQuery(guardInput) has been called
validated == guardResult # NotValidated

\* C1: whenever the upper-cased text of the statement contains DROP, DELETE,
\* TRUNCATE, ALTER, CREATE, INSERT or UPDATE as a substring,
\* validateAndOptimizeQuery throws: such a statement is never returned.
C1_BlocklistedRejected ==
    (validated /\ blocklisted(guardInput)) => ~guardResult.ok

\* a statement that spells TRUNCATE in mixed case has been rejected
C1_Witness ==
    /\ validated
    /\ ~guardResult.ok
    /\ guardResult.keyword = <<"T","R","U","N","C","A","T","E">>
    /\ ~includes(guardInput, <<"T","R","U","N","C","A","T","E">>)

\* the upper-cased text is recognisably an aggregate
aggregateText(upper) ==
    \E w \in { <<"C","O","U","N","T","(">>, <<"S","U","M","(">>, <<"A","V","G","(">>, <<"G","R","O","U","P"," ","B","Y">> } : includes(upper, w)

\* C8: an accepted statement whose upper-cased text contains SELECT, no LIMIT
\* and none of COUNT(, SUM(, AVG(, GROUP BY is returned with one ' LIMIT 100'
\* appended; an accepted statement that contains GROUP BY, COUNT(, SUM( or
\* AVG( is returned as it was given.
C8_DefaultLimit ==
    (validated /\ guardResult.ok) =>
        LET upper == toUpperCase(guardInput)
        IN  /\ (includes(upper, <<"S","E","L","E","C","T">>) /\ ~includes(upper, <<"L","I","M","I","T">>)
                    /\ ~aggregateText(upper))
                  => guardResult.query = guardInput \o <<" ","L","I","M","I","T"," ","1","0","0">>
            /\ aggregateText(upper) => guardResult.query = guardInput

\* a lower-case select without a limit has been given the default limit
C8_Witness ==
    /\ validated
    /\ guardResult.ok
    /\ guardInput = <<"s","e","l","e","c","t"," ","*"," ","F","R","O","M"," ","c","o","m","p","a","n","y">>
    /\ guardResult.query = <<"s","e","l","e","c","t"," ","*"," ","F","R","O","M"," ","c","o","m","p","a","n","y"," ","L","I","M","I","T"," ","1","0","0">>

\* C9, as claimed: every plain SELECT <column> FROM <table> LIMIT n over the
\* columns and tables of the schema is accepted and returned unchanged.
C9_PlainSelectAccepted ==
    (validated /\ guardInput \in PlainSelects) =>
        (guardResult.ok /\ guardResult.query = guardInput)

\* C9, amended: a plain SELECT <column> FROM <table> LIMIT n is accepted and
\* returned unchanged when its upper-cased text contains no keyword of the
\* blocklist, and is rejected when it does (a column such as createdTime).
C9_PlainSelectUnlessBlocklisted ==
    (validated /\ guardInput \in PlainSelects) =>
        IF blocklisted(guardInput)
        THEN ~guardResult.ok
        ELSE guardResult.ok /\ guardResult.query = guardInput

\* a plain select of a column has been accepted as it was given
C9_Witness ==
    /\ validated
    /\ guardInput = PlainSelect(<<"p","r","o","j","e","c","t","N","a","m","e">>, <<"p","r","o","j","e","c","t","s">>, <<"5","0">>)
    /\ guardResult.ok
    /\ guardResult.query = guardInput

-----------------------------------------------------------------------------
(* Properties of the pipeline and of the cache (under Spec).                *)

\* the statements of the model whose upper-cased text contains a keyword of
\* the blocklist
BlocklistedStatements == {s \in DispatchedStatements : blocklisted(s)}

\* the request of slot p has called connectionPool.execute
dispatched(p) == call[p].attempts > 0

\* the guard has rejected the statement of the request of slot p
rejected(p) == guarded[p].called /\ ~guarded[p].ok

entersExecuteSqlQuery(p) == ~call[p].active /\ call'[p].active

\* the call of executeSqlQuery of slot p found an entry that had expired
refetched(p) == pc[p] = "done" /\ call[p].active /\ call[p].useCache /\ call[p].expired

\* what C3 says of the call itself: with useCache and an entry under the key
\* of the query, an entry younger than 300000 ms is returned as it is, flagged
\* fromCache, with no call of the database and no change of the cache; an
\* entry of 300000 ms or more is deleted and the database is called
C3_Lookup ==
    \A p \in Slots :
        LET key == generateCacheKey(call'[p].query)
        IN  (entersExecuteSqlQuery(p) /\ call'[p].useCache /\ cacheHas(queryCache, key)) =>
               IF now - cacheGet(queryCache, key).timestamp < 300000
               THEN /\ result'[p].success
                    /\ result'[p].data = Some(cacheGet(queryCache, key).result)
                    /\ result'[p].fromCache = Some(TRUE)
                    /\ ~dispatched(p)'
                    /\ pc'[p] = "done"
                    /\ queryCache' = queryCache
               ELSE /\ ~cacheHas(queryCache', key)
                    /\ dispatched(p)'
                    /\ pc'[p] = "execute"
                    /\ call'[p].expired

\* C3, as claimed: after an expired entry the call returns fromCache = false.
C3_RefetchNotFromCache ==
    \A p \in Slots : refetched(p) => result[p].fromCache = Some(FALSE)

\* C3, amended: executeSqlQuery with useCache returns the stored rows with
\* fromCache = true and no call of the database when the entry is younger
\* than 300000 ms, and a hit changes nothing in the cache; an entry of
\* 300000 ms or more is removed and the query is executed again, and the
\* call returns fromCache = false when that execution succeeds and a failure
\* result without a fromCache field when it fails.
C3_CacheLifetime ==
    /\ [][C3_Lookup]_vars
    /\ [](\A p \in Slots :
            refetched(p) =>
                IF result[p].success
                THEN result[p].fromCache = Some(FALSE)
                ELSE result[p].fromCache = None)

\* an entry stored at 0 was found expired at 300000, and the query was
\* executed again
C3_Witness ==
    \E p \in Slots :
        /\ refetched(p)
        /\ call[p].startTime = cacheTimeout
        /\ result[p].fromCache = Some(FALSE)
        /\ cacheHas(queryCache, generateCacheKey(call[p].query))

\* C4: a POST /query request sent with useCache = false is not answered from
\* the cache.
C4_QueryHonoursUseCache ==
    \A p \in Slots :
        (pc[p] = "done" /\ req[p].route = "query" /\ ~req[p].useCache)
            => resp[p].fromCache # Some(TRUE)

\* C7: when the call of the model fails with status 429, generateSqlQuery
\* does not raise.
C7_FallbackOnRateLimit ==
    \A p \in Slots : (gen[p].called /\ gen[p].status = 429) => gen[p].ok

-----------------------------------------------------------------------------
(* Properties of the cache and of the history (under SpecCache).            *)

cacheKeys(cache) == {cache[i].key : i \in 1..Len(cache)}

\* executeQuery returns rows to the executeSqlQuery of slot p in this step
returnsRows(p) ==
    /\ pc[p] = "execute"
    /\ call[p].active
    /\ pc'[p] = "done"
    /\ call'[p].outcome = "returned"

\* executeSqlQuery of slot p ends in this step, with rows or with an error
completes(p) == pc[p] = "execute" /\ call[p].active /\ pc'[p] = "done"

\* the step stores rows under a key the full cache does not hold
storesNewKeyWhenFull(p) ==
    /\ returnsRows(p)
    /\ call[p].useCache
    /\ call'[p].rows.length > 0
    /\ call'[p].rows.length < 1000
    /\ Len(queryCache) = MaxCacheEntries
    /\ generateCacheKey(call[p].query) \notin cacheKeys(queryCache)

\* C5: the cache never holds more than its capacity of entries (100 in the
\* code, MaxCacheEntries here), whatever the interleaving of calls and
\* clearCache; and the step that stores a new key into a full cache removes
\* the entry inserted first, keeps the others in their order and puts the new
\* entry last.
C5_CacheCapacity ==
    /\ [](Len(queryCache) <= MaxCacheEntries)
    /\ [][\A p \in Slots :
            storesNewKeyWhenFull(p) =>
               /\ Len(queryCache') = MaxCacheEntries
               /\ \A i \in 1..(MaxCacheEntries - 1) : queryCache'[i] = queryCache[i + 1]
               /\ queryCache'[MaxCacheEntries].key = generateCacheKey(call[p].query)
               /\ queryCache'[MaxCacheEntries].result = call'[p].rows
               /\ queryCache[1].key \notin cacheKeys(queryCache')]_vars

\* at time 0, with no entry expired or cleared, a request has stored its rows
\* and the full cache no longer holds them: they were evicted
C5_Witness ==
    /\ now = 0
    /\ Len(queryCache) = MaxCacheEntries
    /\ \E p \in Slots :
          /\ pc[p] = "done"
          /\ call[p].useCache
          /\ call[p].outcome = "returned"
          /\ call[p].rows.length > 0
          /\ generateCacheKey(call[p].query) \notin cacheKeys(queryCache)

\* C10: the history never holds more than maxHistorySize records (1000 in
\* the code); every executeSqlQuery that ends appends one record at the end,
\* the earlier records keep their order, and when the history was full the
\* first record, and only it, is dropped; no other step changes the history.
C10_HistoryBounded ==
    /\ [](Len(queryHistory) <= maxHistorySize)
    /\ [][IF \E p \in Slots : completes(p)
          THEN \E p \in Slots :
                  /\ completes(p)
                  /\ Len(queryHistory') > 0
                  /\ queryHistory'[Len(queryHistory')].query = call[p].query
                  /\ queryHistory'[Len(queryHistory')].success = (call'[p].outcome = "returned")
                  /\ IF Len(queryHistory) < maxHistorySize
                     THEN queryHistory' = Append(queryHistory,
                                                 queryHistory'[Len(queryHistory')])
                     ELSE queryHistory' = Append(Tail(queryHistory),
                                                 queryHistory'[Len(queryHistory')])
          ELSE queryHistory' = queryHistory]_vars

\* more calls have ended than the history holds, and the history is full:
\* its oldest record was dropped
C10_Witness ==
    /\ Len(queryHistory) = maxHistorySize
    /\ metrics.successfulQueries + metrics.failedQueries > maxHistorySize
    /\ queryHistory[1].success # queryHistory[maxHistorySize].success

-----------------------------------------------------------------------------
(* Properties of executeQuery (under SpecRetry).                            *)

\* the execute of the pool failed with a connection reset on attempts 1 and
\* 2 of the call of slot p and returned rows on attempt 3
resetTwiceThenRows(p) ==
    /\ pc[p] = "done"
    /\ call[p].codes = <<"ECONNRESET", "ECONNRESET">>

\* C6, as claimed: after connection resets on attempts 1 and 2 and rows on
\* attempt 3, the call returns the rows and has waited 1 s and then 2 s.
C6_BackoffOneTwoSeconds ==
    \A p \in Slots :
        resetTwiceThenRows(p) =>
            /\ call[p].outcome = "returned"
            /\ call[p].delays = <<1000, 2000>>

\* C6, amended: after connection resets on attempts 1 and 2 and rows on
\* attempt 3, executeQuery returns the rows of attempt 3 and throws nothing,
\* after exactly two backoff delays, of 2 s and then 4 s.
C6_BackoffTwoFourSeconds ==
    \A p \in Slots :
        resetTwiceThenRows(p) =>
            /\ call[p].outcome = "returned"
            /\ call[p].code = ""
            /\ call[p].attempts = 3
            /\ call[p].delays = <<2000, 4000>>

\* a call has returned a row on its third attempt, after two resets
C6_Witness ==
    \E p \in Slots :
        /\ resetTwiceThenRows(p)
        /\ call[p].outcome = "returned"
        /\ call[p].rows.length = 1
        /\ resp[p].status = 200


-----------------------------------------------------------------------------
(* Category and table selection.                                           *)

CompanyOrganization == <<"C","o","m","p","a","n","y"," ","/"," ","O","r","g","a","n","i","z","a","t","i","o","n">>
tblCompany == <<"c","o","m","p","a","n","y">>

classified == selectResult.step \in {"classified", "selected"}

\* C11, as claimed: for "How many companies do we have?" the keyword scorer
\* selects "Company / Organization" without a call of the model, selectTables
\* on the tables of that category returns a list that includes company, and
\* the guard returns a COUNT(*) statement without a LIMIT added.
C11_CompaniesByKeyword ==
    (classified /\ selectInput.question = QuestionCompanies) =>
        /\ selectResult.category = CompanyOrganization
        /\ selectResult.llmCalls = 0
        /\ selectResult.selectedTables # None
              => inList(selectResult.selectedTables[1], tblCompany)
        /\ validateAndOptimizeQuery(StatementCount).query = StatementCount

\* the part of C11 that the program keeps: every category scores zero on the
\* question, selectTables on the tables of "Company / Organization" returns
\* company alone, and the guard leaves the COUNT(*) statement as it is
C11_CompaniesByFallback ==
    (classified /\ selectInput.question = QuestionCompanies) =>
        /\ selectResult.llmCalls = 1
        /\ ~includes(toLowerCase(QuestionCompanies), tblCompany)
        /\ (selectResult.category = CompanyOrganization
              /\ selectResult.selectedTables # None)
              => selectResult.selectedTables[1] = <<tblCompany>>
        /\ validateAndOptimizeQuery(StatementCount).query = StatementCount

\* the question was classified by the model as "Projects": company is not
\* among the selected tables
C11_Diverges ==
    /\ selectInput.question = QuestionCompanies
    /\ selectResult.step = "selected"
    /\ selectResult.llmCalls = 1
    /\ selectResult.category = <<"P","r","o","j","e","c","t","s">>
    /\ selectResult.selectedTables = Some(<<tblProjects>>)

-----------------------------------------------------------------------------
(* The failure path of executeSqlQuery.                                    *)

\* the database call of executeSqlQuery in slot p fails for good in this step
failsFinally(p) ==
    /\ call[p].active
    /\ pc[p] = "execute"
    /\ pc'[p] = "done"
    /\ call'[p].outcome = "thrown"

\* the message the failure result is to carry for a code
C12_Message(code) ==
    CASE code = "ER_NO_SUCH_TABLE" -> "unknown-table"
      [] code \in {"ECONNRESET", "ETIMEDOUT"} -> "connection-timeout"
      [] code = "ER_BAD_FIELD_ERROR" -> "unknown-column"
      [] OTHER -> driverMessage(code)

\* C12: when the database call of executeSqlQuery fails for good, the call
\* returns a result with success false, the code of the error as errorCode and
\* the message chosen by the code (unknown table, connection timeout, unknown
\* column, else the raw message); failedQueries grows by exactly 1, exactly
\* one failed record is appended to the history, and the cache is unchanged.
C12_FailureIsReturned ==
    [][\A p \in Slots :
          failsFinally(p) =>
              LET code == call'[p].code
                  last == queryHistory'[Len(queryHistory')]
              IN  /\ result'[p].success = FALSE
                  /\ result'[p].errorCode = Some(code)
                  /\ result'[p].error = Some(C12_Message(code))
                  /\ result'[p].data = None
                  /\ resp'[p].status # 0
                  /\ metrics'.failedQueries = metrics.failedQueries + 1
                  /\ metrics'.successfulQueries = metrics.successfulQueries
                  /\ Len(queryHistory') = Min(Len(queryHistory) + 1, maxHistorySize)
                  /\ last.success = FALSE
                  /\ last.rowCount = 0
                  /\ last.error = driverMessage(code)
                  /\ \A i \in 1..(Len(queryHistory') - 1) :
                        queryHistory'[i]
                            = queryHistory[i + Len(queryHistory) + 1 - Len(queryHistory')]
                  /\ queryCache' = queryCache]_vars

\* a call that bypassed a cached entry has failed with a connection reset on
\* each of its three attempts
C12_Witness ==
    \E p \in Slots :
        /\ pc[p] = "done"
        /\ call[p].active
        /\ call[p].codes = <<"ECONNRESET", "ECONNRESET", "ECONNRESET">>
        /\ result[p].error = Some("connection-timeout")
        /\ result[p].errorCode = Some("ECONNRESET")
        /\ metrics.failedQueries = 1
        /\ queryCache # <<>>
        /\ queryHistory[Len(queryHistory)].success = FALSE

-----------------------------------------------------------------------------
(* selectTables.                                                           *)

\* the calls of selectTables that have returned: the list each was given and
\* the list it returned
selectTablesCalls ==
    (IF selectResult.step = "returned"
     THEN {[availableTables |-> selectInput.availableTables,
            result |-> selectResult.alone[1]]}
     ELSE {})
    \cup
    (IF selectResult.selectedTables # None
     THEN {[availableTables |-> selectResult.tables[1],
            result |-> selectResult.selectedTables[1]]}
     ELSE {})

\* no keyword of keywordTableMap hits an available table and no available
\* table scores
nothingMatchesOrScores(availableTables) ==
    LET questionLower == toLowerCase(selectInput.question)
    IN  /\ directMatches(questionLower, availableTables, Len(keywordTableMap)) = <<>>
        /\ scoredMatches(questionLower, availableTables, selectInput.tableSchemas) = <<>>

\* the question asks for projects or for a number, and "projects" is available
projectsForced(availableTables) ==
    LET questionLower == toLowerCase(selectInput.question)
    IN  /\ includes(questionLower, kwProject) \/ includes(questionLower, kwHowMany)
        /\ inList(availableTables, tblProjects)

\* a non-empty list of at most 3 distinct elements of availableTables
wellFormedSelection(c) ==
    /\ Len(c.result) \in 1..3
    /\ \A i, j \in DOMAIN c.result : c.result[i] = c.result[j] => i = j
    /\ \A i \in DOMAIN c.result : inList(c.availableTables, c.result[i])

\* C13, as claimed: on a non-empty availableTables selectTables returns a
\* non-empty list of at most 3 distinct tables, each an element of
\* availableTables, and the first available table alone when nothing matches
\* or scores.
C13_SelectionOrFirstTable ==
    \A c \in selectTablesCalls :
        c.availableTables # <<>> =>
            /\ wellFormedSelection(c)
            /\ nothingMatchesOrScores(c.availableTables)
                  => c.result = <<c.availableTables[1]>>

\* C13, amended: on a non-empty availableTables selectTables returns a
\* non-empty list of at most 3 distinct tables, each an element of
\* availableTables; when nothing matches or scores it returns "projects" alone
\* if the question contains "project" or "how many" and "projects" is
\* available, and the first available table alone otherwise.
C13_SelectionOrDefault ==
    \A c \in selectTablesCalls :
        c.availableTables # <<>> =>
            /\ wellFormedSelection(c)
            /\ nothingMatchesOrScores(c.availableTables)
                  => c.result = IF projectsForced(c.availableTables)
                                THEN <<tblProjects>>
                                ELSE <<c.availableTables[1]>>

\* nothing matched or scored on a list that holds "projects" after its first
\* table, and selectTables has returned the first table alone
C13_Witness ==
    /\ selectResult.step = "returned"
    /\ selectInput.question = QuestionWeather
    /\ nothingMatchesOrScores(selectInput.availableTables)
    /\ inList(selectInput.availableTables, tblProjects)
    /\ selectInput.availableTables[1] # tblProjects
    /\ selectResult.alone = Some(<<selectInput.availableTables[1]>>)

-----------------------------------------------------------------------------
(* executeQuery of both agents.                                            *)

\* the calls of executeQuery under way or over: those of AdvancedSqlAgent in
\* the slots and that of ProjectSummaryAgent
executeQueryCalls ==
    {[pc |-> pc[p], attempts |-> call[p].attempts, codes |-> call[p].codes,
      outcome |-> call[p].outcome, code |-> call[p].code, delays |-> call[p].delays,
      recreated |-> call[p].recreated] : p \in {q \in Slots : call[q].attempts > 0}}
    \cup
    (IF summaryCall.attempts > 0
     THEN {[pc |-> summaryCall.pc, attempts |-> summaryCall.attempts,
            codes |-> summaryCall.codes, outcome |-> summaryCall.outcome,
            code |-> summaryCall.code, delays |-> summaryCall.delays,
            recreated |-> summaryCall.recreated]}
     ELSE {})

\* C14: a call of executeQuery, of either agent, issues at most 3 calls of
\* the pool's execute whatever errors the pool returns; after the third it is
\* over; and when it is over it has returned rows or thrown the last error,
\* never left its loop without a value.
C14_AtMostThreeAttempts ==
    \A c \in executeQueryCalls :
        /\ c.attempts <= 3
        /\ Len(c.codes) <= c.attempts
        /\ (c.attempts = 3 /\ c.pc # "execute") => c.pc = "done"
        /\ c.pc = "done" =>
              /\ c.outcome \in {"returned", "thrown"}
              /\ c.outcome = "thrown" =>
                    /\ c.codes # <<>>
                    /\ c.code = c.codes[Len(c.codes)]
                    /\ Len(c.codes) = c.attempts

\* the call of the summary agent has thrown the error of its third attempt
C14_Witness ==
    /\ summaryCall.pc = "done"
    /\ summaryCall.attempts = 3
    /\ summaryCall.outcome = "thrown"
    /\ summaryCall.codes = <<"ECONNRESET", "PROTOCOL_CONNECTION_LOST", "ENOTFOUND">>
    /\ summaryCall.code = "ENOTFOUND"

\* the calls of AdvancedSqlAgent.executeQuery whose attempts so far all
\* failed with a transient connection error
keepsFailing(p) ==
    /\ call[p].attempts > 0
    /\ Len(call[p].codes) >= call[p].attempts - 1
    /\ \A i \in DOMAIN call[p].codes : isConnectionError(call[p].codes[i])

\* C15, as claimed: in a call whose attempts keep failing with a transient
\* connection error the pool is torn down and recreated on the first of the
\* two retries, before the second attempt is issued.
C15_RecreatedOnFirstRetry ==
    \A p \in Slots :
        (keepsFailing(p) /\ pc[p] = "execute" /\ call[p].attempts >= 2)
            => call[p].recreated = 1

\* C15, amended: in a call whose attempts keep failing with a transient
\* connection error the pool is torn down and recreated once, on the second
\* and last of the two retries, after its backoff and before the third attempt
\* is issued; the first retry leaves the pool alone.
C15_RecreatedOnLastRetry ==
    \A p \in Slots :
        keepsFailing(p) =>
            /\ call[p].attempts <= 2 => call[p].recreated = 0
            /\ (call[p].attempts = 3 /\ pc[p] = "execute") => call[p].recreated = 1
            /\ call[p].attempts = 3 => call[p].delays = <<2000, 4000>>

\* the third attempt is under way after two connection errors and one
\* recreation of the pool
C15_Witness ==
    \E p \in Slots :
        /\ pc[p] = "execute"
        /\ call[p].attempts = 3
        /\ call[p].codes = <<"ETIMEDOUT", "EPIPE">>
        /\ call[p].recreated = 1
        /\ connectionPool = 1

\* the codes each agent takes for a transient connection error
C16_TransientAdvanced == {"ECONNRESET", "PROTOCOL_CONNECTION_LOST", "ETIMEDOUT", "EPIPE"}
C16_TransientSummary == {"ECONNRESET", "PROTOCOL_CONNECTION_LOST", "ENOTFOUND"}

\* C16: when the pool's execute fails with a code that is not a transient
\* connection code of the agent, executeQuery throws that error in the same
\* step: no further attempt is issued, no backoff delay is waited and the
\* pool is not torn down.
C16_NonTransientThrownAtOnce ==
    [][/\ \A p \in Slots :
             (/\ pc[p] = "execute"
              /\ Len(call'[p].codes) = Len(call[p].codes) + 1
              /\ call'[p].codes[Len(call'[p].codes)] \notin C16_TransientAdvanced)
                 => /\ pc'[p] = "done"
                    /\ call'[p].outcome = "thrown"
                    /\ call'[p].code = call'[p].codes[Len(call'[p].codes)]
                    /\ call'[p].attempts = call[p].attempts
                    /\ call'[p].delays = call[p].delays
                    /\ call'[p].recreated = call[p].recreated
                    /\ connectionPool' = connectionPool
       /\ (/\ summaryCall.pc = "execute"
           /\ Len(summaryCall'.codes) = Len(summaryCall.codes) + 1
           /\ summaryCall'.codes[Len(summaryCall'.codes)] \notin C16_TransientSummary)
              => /\ summaryCall'.pc = "done"
                 /\ summaryCall'.outcome = "thrown"
                 /\ summaryCall'.code = summaryCall'.codes[Len(summaryCall'.codes)]
                 /\ summaryCall'.attempts = summaryCall.attempts
                 /\ summaryCall'.delays = summaryCall.delays
                 /\ summaryCall'.recreated = summaryCall.recreated
                 /\ summaryPool' = summaryPool]_vars

\* the summary agent has thrown the syntax error of its second attempt, after
\* one retry
C16_Witness ==
    /\ summaryCall.pc = "done"
    /\ summaryCall.outcome = "thrown"
    /\ summaryCall.codes = <<"ECONNRESET", "ER_PARSE_ERROR">>
    /\ summaryCall.code = "ER_PARSE_ERROR"
    /\ summaryCall.attempts = 2
    /\ summaryCall.delays = <<1000>>
    /\ summaryCall.recreated = 1

-----------------------------------------------------------------------------
(* What executeSqlQuery stores in the cache.                               *)

cacheEntries(cache) == {cache[i] : i \in DOMAIN cache}

\* executeSqlQuery in slot p gets the rows of the database in this step
getsRows(p) ==
    /\ call[p].active
    /\ pc[p] = "execute"
    /\ call'[p].outcome = "returned"

\* executeSqlQuery is entered in slot p in this step
enters(p) == pc[p] = "idle" /\ call'[p].active

\* C17: an entry is added to the cache only by an execution that succeeded
\* with useCache true and at least 1 and fewer than 1000 rows; a call with
\* useCache false neither reads nor changes the cache, whatever entry the
\* cache holds for its query; a result of no row or of 1000 rows adds nothing.
C17_CacheStoreConditions ==
    [][/\ (cacheEntries(queryCache') \ cacheEntries(queryCache) # {})
             => \E p \in Slots :
                   /\ getsRows(p)
                   /\ call[p].useCache
                   /\ call'[p].rows.length >= 1
                   /\ call'[p].rows.length < 1000
                   /\ result'[p].success
       /\ \A p \in Slots :
             /\ (enters(p) /\ ~call'[p].useCache)
                   => /\ queryCache' = queryCache
                      /\ metrics'.cacheHits = metrics.cacheHits
                      /\ pc'[p] = "execute"
             /\ (getsRows(p) /\ ~call[p].useCache)
                   => /\ queryCache' = queryCache
                      /\ result'[p].fromCache = Some(FALSE)
             /\ (getsRows(p) /\ (call'[p].rows.length = 0 \/ call'[p].rows.length >= 1000))
                   => queryCache' = queryCache]_vars

\* a call with useCache false has got one row from the database while the
\* cache holds an expired entry for its query, which is still there
C17_Witness ==
    \E p \in Slots :
        /\ pc[p] = "done"
        /\ call[p].active
        /\ ~call[p].useCache
        /\ call[p].outcome = "returned"
        /\ call[p].rows.length = 1
        /\ cacheHas(queryCache, cacheKeyOf[call[p].query])
        /\ ~isFresh(cacheGet(queryCache, cacheKeyOf[call[p].query]), call[p].startTime)
        /\ cacheGet(queryCache, cacheKeyOf[call[p].query]).timestamp = 0

\* C18, as claimed: whenever availableTables contains "projects" and the
\* lowercased question contains "project" or "how many", the list selectTables
\* returns contains "projects".
C18_ProjectsAlwaysIncluded ==
    \A c \in selectTablesCalls :
        projectsForced(c.availableTables) => inList(c.result, tblProjects)

\* processQuestion on "How many companies have summaries?", classified as
\* "General", has selected three tables by keyword and not "projects", which
\* the catalog holds
C18_Diverges ==
    /\ selectInput.question = QuestionSummaries
    /\ selectResult.step = "selected"
    /\ selectResult.category = General
    /\ inList(selectResult.tables[1], tblProjects)
    /\ selectResult.selectedTables
          = Some(<< tblCompany, <<"m","a","s","t","e","r","_","p","r","o","j","e","c","t","_","a","i","_","s","u","m","m","a","r","y">>, <<"c","o","n","s","o","l","i","d","a","t","e","d","_","s","u","m","m","a","r","y">> >>)

-----------------------------------------------------------------------------
(* selectCategory.                                                         *)

\* the score of the i-th category of the mapping on the question asked
scoreOf(i) ==
    categoryScore(toLowerCase(selectInput.question), getCategoryMapping[i].keywords)

someKeywordOccurs ==
    \E i \in DOMAIN getCategoryMapping :
        \E k \in DOMAIN getCategoryMapping[i].keywords :
            includes(toLowerCase(selectInput.question), getCategoryMapping[i].keywords[k])

\* the first of the categories with the highest score
highestScoring ==
    CHOOSE i \in DOMAIN getCategoryMapping :
        /\ \A j \in DOMAIN getCategoryMapping : scoreOf(j) <= scoreOf(i)
        /\ \A j \in 1..(i - 1) : scoreOf(j) < scoreOf(i)

\* C19: when a category keyword occurs in the lowercased question,
\* selectCategory returns the category with the highest score, the first listed
\* of them on a tie, with the table list of that category, and calls no model.
C19_HighestScoreFirstOnTie ==
    (classified /\ someKeywordOccurs) =>
        /\ selectResult.category = getCategoryMapping[highestScoring].name
        /\ selectResult.tables = Some(getCategoryMapping[highestScoring].tables)
        /\ selectResult.llmCalls = 0

\* "List users" scores 4 for "Company / Organization" and 4 for
\* "Users / Teams", and the first of the two was returned
C19_Witness ==
    /\ classified
    /\ selectInput.question = QuestionUsers
    /\ scoreOf(1) = 4
    /\ scoreOf(2) = 4
    /\ \A i \in DOMAIN getCategoryMapping : scoreOf(i) <= 4
    /\ selectResult.category = CompanyOrganization
    /\ selectResult.llmCalls = 0

allScoresZero == \A i \in DOMAIN getCategoryMapping : scoreOf(i) = 0

\* the reply of the model, trimmed, when the call gave one
knownReply ==
    selectInput.llm.ok /\ trim(selectInput.llm.text) \in categoryNames

\* C20, as claimed: when every category scores zero selectCategory calls the
\* model exactly once; a trimmed reply that is a category name gives that
\* category and its tables; any other reply, or a failed call, gives "General"
\* with every table of the schema catalog, and nothing is raised.
C20_FallbackToGeneral ==
    (classified /\ allScoresZero) =>
        /\ selectResult.llmCalls = 1
        /\ IF knownReply
           THEN /\ selectResult.category = trim(selectInput.llm.text)
                /\ selectResult.tables
                      = Some(tablesOfCategory(trim(selectInput.llm.text)))
           ELSE /\ selectResult.category = General
                /\ selectResult.tables = Some(schemaKeys(selectInput.tableSchemas))

\* the model replied "constructor": selectCategory returned it as the category,
\* with no table list, and selectTables raised
C20_Diverges ==
    /\ selectResult.step = "selected"
    /\ allScoresZero
    /\ selectInput.llm = LlmReply( <<"c","o","n","s","t","r","u","c","t","o","r">> )
    /\ selectResult.category = <<"c","o","n","s","t","r","u","c","t","o","r">>
    /\ selectResult.tables = None
    /\ selectResult.raised

-----------------------------------------------------------------------------
(* Claims about the Python agent bridge.                                   *)

\* the backends in the order hybridChatWithPythonAgents tries them
BackendOrder == <<"python", "db", "llm">>

\* the backends invoked so far are the first ones of the order
invokedInOrder ==
    /\ Len(chat.invoked) <= Len(BackendOrder)
    /\ chat.invoked = SubSeq(BackendOrder, 1, Len(chat.invoked))

\* the Python call resolved with a result whose success is true
pythonCallSucceeded == python.promise = "resolved" /\ python.value = "json-success"

\* what holds of a chat request in every state
C21_Answered ==
    /\ chat.responses <= 1
    /\ invokedInOrder
    /\ chat.pc = "done" =>
          /\ chat.responses = 1
          /\ chat.status = 200
          /\ chat.agent \in {"python", "nodejs_enhanced", "nodejs_basic"}
          /\ chat.agent = "python" =>
                pythonCallSucceeded /\ chat.invoked = <<"python">>
          /\ chat.agent = "nodejs_enhanced" =>
                /\ ~pythonCallSucceeded
                /\ chat.dbOk /\ chat.llmOk
                /\ chat.invoked = BackendOrder
          /\ chat.agent = "nodejs_basic" <=>
                ~pythonCallSucceeded /\ ~(chat.dbOk /\ chat.llmOk)

pythonSettled == python.promise \in {"resolved", "rejected"}

\* a settled promise keeps its state, its value and its reason while the
\* call lasts
settlesOnce ==
    (pythonSettled /\ python'.promise # "none") =>
        /\ python'.promise = python.promise
        /\ python'.value = python.value
        /\ python'.reason = python.reason

\* the promise resolves only with output parsed from a process that closed
\* with code 0 before the timer fired
resolvesOnlyParsedOutput ==
    python.promise = "resolved" =>
        /\ python.closedBeforeTimeout
        /\ python.code = "0"
        /\ python.output \notin {"", "garbage"}
        /\ python.value = python.output

\* C22, as claimed: the promise settles exactly once; it resolves only if the
\* process closed with code 0 and parsable output before the timeout; when the
\* process has not closed by the timeout it is killed and the promise rejects
\* with the timeout error.
C22_TimeoutRejectsWithTimeoutError ==
    /\ resolvesOnlyParsedOutput
    /\ python.timerFired => pythonSettled
    /\ (python.timerFired /\ ~python.closedBeforeTimeout) =>
          /\ python.killed
          /\ python.promise = "rejected"
          /\ python.reason = "timeout"

\* what holds in every state of a call when the timer has fired: the promise
\* is settled, and when the process had not closed kill() was called and the
\* promise is rejected, with the timeout error unless an error event rejected
\* it before
C22_SettledByTimeout ==
    /\ resolvesOnlyParsedOutput
    /\ python.timerFired => pythonSettled
    /\ (python.timerFired /\ ~python.closedBeforeTimeout) =>
          /\ python.killCalled
          /\ python.promise = "rejected"
          /\ \/ python.reason = "timeout"
             \/ python.reason = "error" /\ python.errored

\* C22, amended: the promise of callPythonAgent settles exactly once under
\* every ordering of close, error and timeout; it resolves with the parsed
\* output only if the process closed with code 0 and non-empty parsable output
\* before the timeout; if the process has not closed 60 seconds after the call
\* kill() is called and the promise is rejected, with the timeout error unless
\* an error event has rejected it already; every call settles.
C22_SettlesOnceByTimeout ==
    /\ []C22_SettledByTimeout
    /\ [][settlesOnce]_vars
    /\ (python.promise = "pending") ~> pythonSettled

\* the process was still running when the timer fired: it was killed, the
\* promise was rejected with the timeout error, and the close that followed
\* left it so
C22_Witness ==
    /\ python.timerFired
    /\ python.killed
    /\ python.closed
    /\ ~python.closedBeforeTimeout
    /\ python.promise = "rejected"
    /\ python.reason = "timeout"
    /\ python.settles = 2

-----------------------------------------------------------------------------
(* Claims about the two executeQuery, the cache and the results.           *)

\* s is the beginning of t
isPrefix(s, t) == Len(s) <= Len(t) /\ s = SubSeq(t, 1, Len(s))

\* a call of AdvancedSqlAgent.executeQuery in slot p and a call of
\* ProjectSummaryAgent.executeQuery have both ended in failure, on pools that
\* returned the same error codes as far as both calls went
fedAlike(p) ==
    /\ pc[p] = "done"
    /\ call[p].outcome \in {"thrown", "undefined"}
    /\ summaryCall.pc = "done"
    /\ summaryCall.outcome = "thrown"
    /\ \/ isPrefix(call[p].codes, summaryCall.codes)
       \/ isPrefix(summaryCall.codes, call[p].codes)

\* the codes only one of the two agents retries on
retriedByOne == {"ETIMEDOUT", "EPIPE", "ENOTFOUND"}

\* C23, as claimed: for every sequence of error codes returned by the pool the
\* two executeQuery make the same number of attempts and wait the same
\* sequence of backoff delays.
C23_SameRetryPolicy ==
    \A p \in Slots :
        fedAlike(p) =>
            /\ call[p].attempts = summaryCall.attempts
            /\ call[p].delays = summaryCall.delays

\* C23, amended: both executeQuery make at most three attempts, and the same
\* number of attempts for every sequence of codes that holds none of
\* ETIMEDOUT, EPIPE (retried by the SQL agent only) and ENOTFOUND (retried by
\* the summary agent only); both wait after the same failures, the SQL agent
\* 2000 ms then 4000 ms, the summary agent 1000 ms then 2000 ms: each delay of
\* the SQL agent is twice that of the summary agent.
C23_SameAttemptsDoubleDelays ==
    \A p \in Slots :
        fedAlike(p) =>
            /\ call[p].attempts <= maxRetries
            /\ summaryCall.attempts <= summaryMaxRetries
            /\ (\A i \in DOMAIN call[p].codes : call[p].codes[i] \notin retriedByOne) =>
                  /\ call[p].attempts = summaryCall.attempts
                  /\ call[p].codes = summaryCall.codes
                  /\ Len(call[p].delays) = Len(summaryCall.delays)
                  /\ \A i \in DOMAIN summaryCall.delays :
                        call[p].delays[i] = 2 * summaryCall.delays[i]

\* both calls failed three times with ECONNRESET
C23_Witness ==
    \E p \in Slots :
        /\ fedAlike(p)
        /\ call[p].codes = <<"ECONNRESET", "ECONNRESET", "ECONNRESET">>
        /\ summaryCall.codes = call[p].codes
        /\ call[p].delays = <<2000, 4000>>
        /\ summaryCall.delays = <<1000, 2000>>

\* C24, as claimed: two different statements never map to the same cache
\* entry, and a result returned from the cache holds the rows that executing
\* the very statement of the call produced.
C24_HitReturnsOwnRows ==
    \A p \in Slots :
        (pc[p] = "done" /\ call[p].active /\ result[p].fromCache = Some(TRUE)) =>
            /\ result[p].data = Some(databaseRows(call[p].query))
            /\ \A q \in CollidingStatements :
                  q # call[p].query => cacheKeyOf[q] # cacheKeyOf[call[p].query]

\* the statement with id 2 was answered from the cache with the row of the
\* statement with id 1
C24_Diverges ==
    \E p \in Slots :
        /\ pc[p] = "done"
        /\ call[p].active
        /\ call[p].query = StatementById2
        /\ result[p].fromCache = Some(TRUE)
        /\ result[p].data = Some(databaseRows(StatementById))
        /\ resp[p].status = 200

\* the pools that were replaced without end() having been called on them
leakedPools == {i \in 1..pools.created : i # pools.current /\ i \notin pools.ended}

\* C25, as claimed: under any interleaving of requests with a pool recreation
\* (by a retry or by the error handler) no query is dispatched on a pool on
\* which end() has been called, and every pool that was replaced has been
\* ended.
C25_NoDispatchOnEndedPoolNoLeak ==
    /\ \A p \in Slots : poolCall[p].pc = "execute" => ~poolCall[p].onEnded
    /\ leakedPools = {}

\* while one call waits for end() to settle, another call has dispatched its
\* query on the pool being ended
C25_DivergesOnDispatch ==
    \E p \in Slots, q \in Slots :
        /\ poolCall[p].pc = "ending"
        /\ poolCall[q].pc = "execute"
        /\ poolCall[q].onEnded
        /\ poolCall[q].pool = pools.current

\* the error handler has replaced a pool that nothing ended
C25_DivergesOnLeak ==
    /\ pools.errors = 1
    /\ pools.ended = {}
    /\ leakedPools = {1}

\* POST /query has answered in slot p after executeSqlQuery returned
answeredQuestion(p) ==
    pc[p] = "done" /\ req[p].route = "query" /\ call[p].active

\* C26, as claimed: processQuestion reports success only when the statement
\* was executed successfully; after a failure result of executeSqlQuery it
\* reports failure with the error, and POST /query never answers 200 with
\* success true.
C26_SuccessOnlyWhenExecuted ==
    \A p \in Slots :
        answeredQuestion(p) =>
            IF result[p].success
            THEN resp[p].success /\ resp[p].status = 200
            ELSE /\ ~resp[p].success
                 /\ resp[p].status = 400
                 /\ resp[p].error # ""

\* the execution failed and POST /query answered 200 with success true and
\* the apology of generateResponse
C26_Diverges ==
    \E p \in Slots :
        /\ answeredQuestion(p)
        /\ ~result[p].success
        /\ result[p].error # None
        /\ resp[p].status = 200
        /\ resp[p].success
        /\ resp[p].response = "error-apology"

\* C28, as claimed: the rowCount of a successful processQuestion result is the
\* number of rows of the query result the response was composed from, whether
\* the rows came from the database or from the cache.
C28_RowCountIsNumberOfRows ==
    \A p \in Slots :
        (answeredQuestion(p) /\ resp[p].success /\ result[p].success) =>
            resp[p].rowCount = Some(result[p].data[1].length)

\* a question was answered from a cached row with rowCount 0
C28_Diverges ==
    \E p \in Slots :
        /\ answeredQuestion(p)
        /\ result[p].fromCache = Some(TRUE)
        /\ result[p].data[1].length = 1
        /\ resp[p].response \in {"answer", "records-found-apology"}
        /\ resp[p].rowCount = Some(0)

\* the calls of executeSqlQuery suspended on the database: in executeQuery,
\* on connectionPool.execute or on its backoff
inFlight == {p \in Slots : call[p].active /\ pc[p] \in {"execute", "backoff"}}

\* every call counted in totalQueries is counted once more when it ends, as a
\* success, a failure or a cache hit
C27_Conservation ==
    metrics.totalQueries =
        metrics.successfulQueries + metrics.failedQueries + metrics.cacheHits
            + Cardinality(inFlight)

\* the calls that return a result from the cache in this step
returnsFromCache ==
    {p \in Slots : /\ pc[p] = "idle"
                   /\ pc'[p] = "done"
                   /\ result'[p].fromCache = Some(TRUE)}

\* C27: in every state totalQueries = successfulQueries + failedQueries +
\* cacheHits + the number of executeSqlQuery calls suspended on the database
\* (so with no call in flight the three counters add up to totalQueries), and
\* cacheHits grows by one exactly when a result is returned with fromCache
\* true; no update is lost under concurrent calls.
C27_CountersAddUp ==
    /\ []C27_Conservation
    /\ [][metrics'.cacheHits = metrics.cacheHits + Cardinality(returnsFromCache)]_vars

\* one call has failed and been counted while another is suspended in its
\* backoff
C27_Witness ==
    /\ metrics.totalQueries = 2
    /\ metrics.failedQueries = 1
    /\ \E p \in Slots : p \in inFlight /\ pc[p] = "backoff"

-----------------------------------------------------------------------------
(* Claims about the routes.                                                 *)

\* C29: under any interleaving of concurrent first requests getSqlAgentInstance
\* constructs at most one AdvancedSqlAgent, and every request is served by
\* that same instance.
C29_OneSharedInstance ==
    /\ agentsConstructed <= 1
    /\ \A p \in Slots :
          instanceCall[p].pc \in {"returned", "served"} =>
              /\ instanceCall[p].sqlAgent = 1
              /\ instanceCall[p].sqlAgent = sqlAgentInstance

\* a second request arrived during the 2 s wait of the first one and is
\* served by the instance the first one constructed, before the first one
C29_Witness ==
    \E p \in Slots, q \in Slots :
        /\ instanceCall[p].pc = "waiting"
        /\ instanceCall[p].first
        /\ instanceCall[q].pc = "served"
        /\ ~instanceCall[q].first
        /\ instanceCall[q].sqlAgent = 1
        /\ agentsConstructed = 1

\* the requests of an address admitted in the window that ends at time at
admittedInWindow(log, ip, at) ==
    Cardinality({i \in DOMAIN log.admissions[ip] :
                    at - log.admissions[ip][i] < RATE_LIMIT_WINDOW})

\* at every instant no address has more admitted requests in the preceding
\* window than the limit, and a request answered 429 has not reached the agent
C30_WithinLimit ==
    /\ \A ip \in ClientIPs :
          admittedInWindow(limiterLog, ip, now) <= RATE_LIMIT_MAX_REQUESTS
    /\ \A p \in Slots :
          resp[p].status = 429 => ~gen[p].called /\ ~call[p].active

\* a request has been put to the rate limit check in this step: it was
\* refused exactly if the limit of admitted requests was in the window; a
\* refused request is answered 429, leaves the timestamps and the agent alone;
\* an admitted one goes on to the agent
C30_Decision ==
    limiterLog'.n # limiterLog.n =>
        LET d == limiterLog'.last
        IN  /\ d.limited <=>
                  admittedInWindow(limiterLog, d.ip, now) >= RATE_LIMIT_MAX_REQUESTS
            /\ IF d.limited
               THEN /\ rateLimitMap' = rateLimitMap
                    /\ limiterLog'.admissions = limiterLog.admissions
                    /\ resp'[d.slot].status = 429
                    /\ pc'[d.slot] = "done"
                    /\ UNCHANGED <<gen, call, metrics>>
               ELSE /\ pc'[d.slot] = "generate"
                    /\ Len(limiterLog'.admissions[d.ip])
                          = Len(limiterLog.admissions[d.ip]) + 1

\* C30: for every client address and every instant POST /query has admitted at
\* most the limit of requests in the preceding 60000 ms; a further request in
\* the window is answered 429 without the agent being invoked; refused
\* requests do not count toward the window; a request is admitted again once
\* fewer admitted requests than the limit remain inside the window.
C30_RateLimit ==
    /\ []C30_WithinLimit
    /\ [][C30_Decision]_vars

\* an address that was refused is admitted again once its earlier admissions
\* are a window old; the refusal is still in its slot
C30_Witness ==
    /\ limiterLog.n >= 4
    /\ ~limiterLog.last.limited
    /\ Len(limiterLog.admissions[limiterLog.last.ip]) = RATE_LIMIT_MAX_REQUESTS + 1
    /\ limiterLog.last.at = RATE_LIMIT_WINDOW
    /\ \E p \in Slots : resp[p].status = 429
=============================================================================
